---- MODULE Spec2Model ----
(***************************************************************************)
(* Model of the concurrent acquisition-and-control core of dsi2lsl         *)
(* (src/CLI/dsi2lsl.c): the command dispatcher (main), the acquisition     *)
(* thread (DSI_Processing_Thread), the impedance thread (ImpedanceThread), *)
(* the SIGINT handler and the shared control state.                        *)
(*                                                                         *)
(* Every thread is a program counter over the statements of its function;  *)
(* one action is one statement (a Device call, a CheckError, a flag read   *)
(* or a flag write), so that every interleaving of the volatile accesses   *)
(* is explored.  KeepRunning, startFlag and stopFlag are volatile ints      *)
(* shared without synchronisation: each access is one aligned load or      *)
(* store, so what a build can produce is the interleavings of the single   *)
(* accesses, which is what the actions below generate.  The Device library *)
(* keeps one process-wide error state (DSI_Error / DSI_ClearError take no  *)
(* handle): dsiError.  When main returns the process ends and its threads  *)
(* take no further step.                                                   *)
(***************************************************************************)
EXTENDS Integers, Sequences, FiniteSets, TLC

\* ------------------------------------------------------------------ bounds
\* Lines the operator may type before the control input blocks or ends.
MaxCmds ==
    2
\* Failures the environment may raise in one run: Device errors, and the
\* outlet creation returning NULL.
MaxFaults ==
    1
\* Channel count the connected Device reports (fixed once connected).
NumChannels ==
    2

\* Sampling rate the connected Device reports, in Hz.
SamplingRate ==
    300

\* ------------------------------------------------------- program constants
\* 2^24: every integer of magnitude up to this one is a float (24-bit mantissa).
FloatExact ==
    16777216

\* ----------------------------------------------------------------- inputs
\* Tokens fgets can return; "EOF" stands for fgets returning NULL.
Tokens ==
    {"checkZOn", "checkZOff", "resetZ", "exit", "other", "EOF"}

\* The signals (double, one per channel) a packet from an n-channel Device
\* carries: channel i at 2^24 + i, so that no two channels agree and odd
\* channels hold a value that is not a float.
Packets(n) ==
    {[i \in 1..n |-> FloatExact + i]}

VARIABLES
    \* --- program state
    KeepRunning,    \* static volatile int KeepRunning
    startFlag,      \* zFLag.startFlag
    stopFlag,       \* zFLag.stopFlag
    sample,         \* float *sample: <<>> is NULL, else the buffer's entries
    sThread,        \* handle of the acquisition thread: "none", "open", "NULL"
    iThread,        \* handle of the impedance thread
    command,        \* char command[]: the line being handled ("none" once handled)
    report,         \* what main printed about the line last read: "none", "eof"
    resetSeq,       \* the analog reset of the resetZ being handled: "idle",
                    \* "requested" (resetZ read), "started" (Device call made, settle delay due)
    outlet,         \* lsl_outlet: [state, channels, rate]; state "NULL" is the NULL handle
    mainPc,         \* position of main
    dsiPc,          \* position of DSI_Processing_Thread
    impPc,          \* position of ImpedanceThread
    exitStatus,     \* value main returned (meaningful when mainPc = "ret")
    \* --- Device (libDSI) state
    dsiError,       \* DSI_Error(): an error is pending
    headset,        \* [state, callback, acquiring, impDriver]
    nChannels,      \* DSI_Headset_GetNumberOfChannels
    samplingRate,   \* DSI_Headset_GetSamplingRate
    signal,         \* DSI_Channel_GetSignal of each channel
    \* --- environment budgets
    faults,         \* Device faults raised so far
    nCmds,          \* lines read so far
    \* --- history
    cycBoth,        \* both flags were set when the current worker cycle began
                    \* (kept until the cycle is past its start branch)
    cycStart,       \* the current worker cycle has invoked the start driver
                    \* (kept until the cycle has cleared startFlag)
    pairB,          \* a checkZOn, checkZOff pair: "on" while typed unread, "armed" until served
    idleFault,      \* the acquisition loop's last DSI_Headset_Idle raised a fault
                    \* (until its CheckError)
    startReq,       \* the pending start request: [merged, calls] (see NewRequest);
                    \* calls counts DSI_Headset_StartImpedanceDriver invocations
    stopReq,        \* the pending stop request: [merged, calls];
                    \* calls counts DSI_Headset_StopImpedanceDriver invocations
    tdLog,          \* teardown steps performed, in order
    lastPush,       \* what the last lsl_push_sample_f was handed
    errShown,       \* threads whose CheckError has written the message of a Device
                    \* error and that have not yet run the statement acting on it
    lateReq,        \* request flags ("start", "stop") the dispatcher has set after
                    \* the worker tested them in its current cycle (until the
                    \* worker clears the flag or the dispatcher cancels it)
    finFault,       \* a teardown step of Finish has raised a Device error
    pairOffOn,      \* a checkZOff, checkZOn pair: "off" while typed unread, "armed" until served
    \* --- the GUI (MainWindow of part_000), which runs the streamer as a child process
    streamerState,  \* this->streamer->state(): "NotRunning", "Starting", "Running"
    zChecked,       \* ui->ZCheckBox->isChecked()
    zConnections,   \* connections of ZCheckBox::toggled to onZCheckBoxToggled
    resetConnections, \* connections of ResetZButton::clicked to onResetZButtonClicked
    timerActive,    \* the timer started by startTimer(1000) has not been killed
    nStarts,        \* clicks of Start so far
    guiEvent,       \* the user event handled last: "none", "start", "stop", "toggle", "resetZ"
    running0,       \* whether the streamer was running when that event arrived
    written         \* the lines that event wrote to the streamer's standard input

progVars ==
    <<KeepRunning, startFlag, stopFlag, sample, sThread, iThread, command,
      report, resetSeq, outlet, mainPc, dsiPc, impPc, exitStatus>>

devVars ==
    <<dsiError, headset, nChannels, samplingRate, signal>>

envVars ==
    <<faults, nCmds>>

histVars ==
    <<cycBoth, cycStart, pairB, idleFault, startReq,
      stopReq, tdLog, lastPush, errShown, lateReq, finFault, pairOffOn>>

guiVars ==
    <<streamerState, zChecked, zConnections, resetConnections, timerActive,
      nStarts, guiEvent, running0, written>>

vars ==
    <<progVars, devVars, envVars, histVars, guiVars>>

\* ---------------------------------------------------------------- helpers
\* (float) x for an integer-valued double x with 0 <= x < 2^25: exact up to
\* 2^24, above it rounded to the nearest even integer, ties to the even mantissa.
ToFloat(x) ==
    IF x <= FloatExact THEN x
    ELSE IF x % 2 = 0 THEN x
    ELSE IF ((x - 1) \div 2) % 2 = 0 THEN x - 1
    ELSE x + 1

\* A Device call returns; the environment may make it raise an error
\* (f = TRUE), which sets the library's pending error.
RaisesFault(f) ==
    /\ f => faults < MaxFaults
    /\ faults' = IF f THEN faults + 1 ELSE faults
    /\ dsiError' = IF f THEN TRUE ELSE dsiError

\* CheckError(): non-zero exactly when an error is pending; the pending error
\* is printed and cleared (DSI_ClearError).
CheckErrorResult ==
    IF dsiError THEN 1 ELSE 0

CheckErrorEffect ==
    dsiError' = FALSE

\* CheckError() called by thread t, whose next statement acts on the result:
\* fprintf( stderr, "%s\n", DSI_ClearError() ) writes the message of the pending
\* error before CheckError returns.
CheckErrorMessageSilent(t) ==
    errShown' = errShown \ {t}

CheckErrorMessage(t) ==
    errShown' = IF dsiError THEN errShown \cup {t} ELSE errShown \ {t}

\* Thread t has run the statement that acts on the result of its CheckError.
ActedOnError(t) ==
    errShown' = errShown \ {t}

\* History of a request flag since it was last raised from 0: merged, a later
\* command of the same kind wrote the flag while it was still set; calls, the
\* driver invocations made since.
NewRequest ==
    [merged |-> FALSE, calls |-> 0]

\* The dispatcher writes 1 to a request flag whose value is flag.
Requested(req, flag) ==
    IF flag = 1 THEN [req EXCEPT !.merged = TRUE] ELSE NewRequest

\* The content of storage that was never written (the buffer malloc returns,
\* the fields of ThreadParams zFLag before lines 179-181).
Uninitialised ==
    -1

NoHeadset ==
    [state |-> "none", callback |-> "NULL", acquiring |-> FALSE, impDriver |-> FALSE]

Init ==
    /\ KeepRunning = 1
    /\ startFlag = Uninitialised
    /\ stopFlag = Uninitialised
    /\ sample = <<>>
    /\ sThread = "none"
    /\ iThread = "none"
    /\ command = "none"
    /\ report = "none"
    /\ resetSeq = "idle"
    /\ outlet = [state |-> "none", channels |-> 0, rate |-> 0]
    /\ mainPc = "StartUp"
    /\ dsiPc = "notStarted"
    /\ impPc = "notStarted"
    /\ exitStatus = 0
    /\ dsiError = FALSE
    /\ headset = NoHeadset
    /\ nChannels = NumChannels
    /\ samplingRate = SamplingRate
    /\ signal = [i \in 1..nChannels |-> 0]
    /\ faults = 0
    /\ nCmds = 0
    /\ cycBoth = FALSE
    /\ cycStart = FALSE
    /\ pairB = "idle"
    /\ idleFault = FALSE
    /\ startReq = NewRequest
    /\ stopReq = NewRequest
    /\ tdLog = <<>>
    /\ lastPush = [buf |-> <<>>, sig |-> <<>>, channels |-> 0]
    /\ errShown = {}
    /\ lateReq = {}
    /\ finFault = FALSE
    /\ pairOffOn = "idle"
    /\ streamerState = "NotRunning"
    /\ zChecked = FALSE
    /\ zConnections = 0
    /\ resetConnections = 0
    /\ timerActive = FALSE
    /\ nStarts = 0
    /\ guiEvent = "none"
    /\ running0 = FALSE
    /\ written = <<>>

\* The process is alive: main has not returned.
Alive ==
    mainPc # "ret"

\* ------------------------------------------------------------ SIGINT
\* void QuitHandler(int a){ KeepRunning = 0; }
QuitHandler ==
    /\ Alive
    /\ KeepRunning' = 0
    /\ UNCHANGED <<startFlag, stopFlag, sample, sThread, iThread, command, report, resetSeq,
                   outlet, mainPc, dsiPc, impPc, exitStatus>>
    /\ UNCHANGED <<devVars, envVars, histVars, guiVars>>

\* ------------------------------------------------------------ main: startup
\* Startup runs before any thread exists, so each "call; CHECK" pair is one step.

\* error = StartUp(argc, argv, &h, &help); if( error || help ){ GlobalHelp; return error; }
\* failAt = 0: every call of StartUp succeeded; failAt = k: its k-th Device call
\* (New, SetMessageCallback, SetVerbosity, Connect, ChooseChannels,
\* GetInfoString) raised an error, which its CHECK printed and cleared.
MainStartUp ==
    /\ mainPc = "StartUp"
    /\ \E help \in BOOLEAN, failAt \in 0..6 :
         /\ (help \/ failAt = 0) => faults' = faults
         /\ (~help /\ failAt > 0) => (faults < MaxFaults /\ faults' = faults + 1)
         /\ help => failAt = 0
         /\ IF help
            THEN /\ mainPc' = "ret"
                 /\ exitStatus' = 0
                 /\ headset' = headset
            ELSE IF failAt > 0
            THEN /\ mainPc' = "ret"
                 /\ exitStatus' = -1
                 /\ headset' = [headset EXCEPT !.state =
                                  IF failAt = 1 THEN "none"
                                  ELSE IF failAt <= 4 THEN "new" ELSE "connected"]
            ELSE /\ mainPc' = "InitLSL"
                 /\ exitStatus' = exitStatus
                 /\ headset' = [headset EXCEPT !.state = "connected"]
    /\ UNCHANGED <<KeepRunning, startFlag, stopFlag, sample, sThread, iThread,
                   command, report, resetSeq, outlet, dsiPc, impPc>>
    /\ UNCHANGED <<dsiError, nChannels, samplingRate, signal, nCmds, histVars, guiVars>>

\* InitLSL: lsl_create_streaminfo(streamName, "EEG", numberOfChannels, samplingRate, ...);
\* return lsl_create_outlet(info, 0, 360);
\* created = FALSE: lsl_create_outlet returned NULL, which InitLSL hands back
\* as it is.
InitLSL(created) ==
    IF created
    THEN [state |-> "live", channels |-> nChannels, rate |-> samplingRate]
    ELSE [state |-> "NULL", channels |-> 0, rate |-> 0]

\* lsl_outlet outlet = InitLSL(h, streamName); CHECK
\* f: a Device call made by InitLSL raised an error (CHECK: return -1).  CHECK
\* looks at the Device error only: a NULL outlet passes it.  A run whose
\* outlet was not created has spent its failures: the environment raises no
\* other one in it.
MainInitLSL ==
    /\ mainPc = "InitLSL"
    /\ \E created \in BOOLEAN, f \in BOOLEAN :
         /\ outlet' = InitLSL(created)
         /\ (f \/ ~created) => faults < MaxFaults
         /\ ~created => ~f
         /\ faults' = IF ~created THEN MaxFaults ELSE IF f THEN faults + 1 ELSE faults
         /\ mainPc' = IF f THEN "ret" ELSE "SetSampleCallback"
         /\ exitStatus' = IF f THEN -1 ELSE exitStatus
    /\ UNCHANGED <<KeepRunning, startFlag, stopFlag, sample, sThread, iThread,
                   command, report, resetSeq, dsiPc, impPc>>
    /\ UNCHANGED <<devVars, nCmds, histVars, guiVars>>

\* DSI_Headset_SetSampleCallback( h, OnSample, outlet ); CHECK
MainSetSampleCallback ==
    /\ mainPc = "SetSampleCallback"
    /\ \E f \in BOOLEAN :
         /\ f => faults < MaxFaults
         /\ faults' = IF f THEN faults + 1 ELSE faults
         /\ mainPc' = IF f THEN "ret" ELSE "StartDataAcquisition"
         /\ exitStatus' = IF f THEN -1 ELSE exitStatus
         /\ headset' = IF f THEN headset ELSE [headset EXCEPT !.callback = "OnSample"]
    /\ UNCHANGED <<KeepRunning, startFlag, stopFlag, sample, sThread, iThread,
                   command, report, resetSeq, outlet, dsiPc, impPc>>
    /\ UNCHANGED <<dsiError, nChannels, samplingRate, signal, nCmds, histVars, guiVars>>

\* DSI_Headset_StartDataAcquisition( h ); CHECK
MainStartDataAcquisition ==
    /\ mainPc = "StartDataAcquisition"
    /\ \E f \in BOOLEAN :
         /\ f => faults < MaxFaults
         /\ faults' = IF f THEN faults + 1 ELSE faults
         /\ mainPc' = IF f THEN "ret" ELSE "CreateImpedanceThread"
         /\ exitStatus' = IF f THEN -1 ELSE exitStatus
         /\ headset' = IF f THEN headset ELSE [headset EXCEPT !.acquiring = TRUE]
    /\ UNCHANGED <<KeepRunning, startFlag, stopFlag, sample, sThread, iThread,
                   command, report, resetSeq, outlet, dsiPc, impPc>>
    /\ UNCHANGED <<dsiError, nChannels, samplingRate, signal, nCmds, histVars, guiVars>>

\* MainCreateImpedanceThread without lines 180-181.
MainCreateImpedanceThreadNoInit ==
    /\ mainPc = "CreateImpedanceThread"
    /\ \E ok \in BOOLEAN :
         /\ iThread' = IF ok THEN "open" ELSE "NULL"
         /\ impPc' = IF ok THEN "i_test" ELSE impPc
         /\ mainPc' = IF ok THEN "CreateProcessingThread" ELSE "f_detach"
    /\ UNCHANGED <<KeepRunning, startFlag, stopFlag, sample, sThread, command, report,
                   resetSeq, outlet, dsiPc, exitStatus>>
    /\ UNCHANGED <<devVars, envVars, histVars, guiVars>>

\* zFLag.startFlag = 0; zFLag.stopFlag = 0;
\* iThread = CreateThread(..., ImpedanceThread, &zFLag, ...);
\* if (iThread == NULL) return Finish(h);
MainCreateImpedanceThread ==
    /\ mainPc = "CreateImpedanceThread"
    /\ startFlag' = 0
    /\ stopFlag' = 0
    /\ \E ok \in BOOLEAN :
         /\ iThread' = IF ok THEN "open" ELSE "NULL"
         /\ impPc' = IF ok THEN "i_test" ELSE impPc
         /\ mainPc' = IF ok THEN "CreateProcessingThread" ELSE "f_detach"
    /\ UNCHANGED <<KeepRunning, sample, sThread, command, report, resetSeq, outlet, dsiPc,
                   exitStatus>>
    /\ UNCHANGED <<devVars, envVars, histVars, guiVars>>

\* sThread = CreateThread(..., DSI_Processing_Thread, h, ...);
\* if (sThread == NULL) return Finish(h);
MainCreateProcessingThread ==
    /\ mainPc = "CreateProcessingThread"
    /\ \E ok \in BOOLEAN :
         /\ sThread' = IF ok THEN "open" ELSE "NULL"
         /\ dsiPc' = IF ok THEN "d_test" ELSE dsiPc
         /\ mainPc' = IF ok THEN "m_test" ELSE "f_detach"
    /\ UNCHANGED <<KeepRunning, startFlag, stopFlag, sample, iThread, command, report, resetSeq,
                   outlet, impPc, exitStatus>>
    /\ UNCHANGED <<devVars, envVars, histVars, guiVars>>

\* ------------------------------------------------------------ sample callback
\* malloc( numberOfChannels * sizeof(float) ): n entries, not yet written.
Malloc(n) ==
    [i \in 1..n |-> Uninitialised]

\* FillSample with the loop bound off by one (channelIndex < numberOfChannels - 1).
FillSampleShort(buf, n, sig) ==
    [i \in 1..Len(buf) |-> IF i < n THEN ToFloat(sig[i]) ELSE buf[i]]

\* The for loop of OnSample: entry i of the buffer receives (float) signal i,
\* for every channel index below numberOfChannels; other entries are kept.
FillSample(buf, n, sig) ==
    [i \in 1..Len(buf) |-> IF i <= n THEN ToFloat(sig[i]) ELSE buf[i]]

\* void OnSample( DSI_Headset h, double packetOffsetTime, void * outlet )
\* with sig the signals the Device holds when it calls back.  With the NULL
\* handle lsl_push_sample_f has no outlet to push to: the call is undefined
\* behaviour, which either returns having pushed nothing (here) or ends the
\* process (OnSampleNullOutlet).
OnSample(sig) ==
    LET n == nChannels
        buf == IF sample = <<>> THEN Malloc(n) ELSE sample
    IN  /\ sample' = FillSample(buf, n, sig)
        /\ lastPush' = IF outlet.state = "NULL" THEN lastPush
                       ELSE [buf |-> sample', sig |-> sig, channels |-> outlet.channels]

\* DSI_Headset_Idle: the Device may have received a packet; if so its channels
\* take the packet's signals and the registered sample callback is invoked.
HeadsetIdle(deliver, sig) ==
    /\ signal' = IF deliver THEN sig ELSE signal
    /\ IF deliver /\ headset.callback = "OnSample"
       THEN OnSample(sig)
       ELSE UNCHANGED <<sample, lastPush>>

\* DSI_Headset_Idle (in the acquisition loop or in Finish) delivers a packet and
\* OnSample calls lsl_push_sample_f with the NULL handle: the access violation
\* ends the process with the status of the exception (0xC0000005).
OnSampleNullOutlet ==
    /\ Alive
    /\ dsiPc = "d_idle" \/ mainPc = "f_idle"
    /\ headset.callback = "OnSample"
    /\ outlet.state = "NULL"
    /\ mainPc' = "ret"
    /\ exitStatus' = -1073741819
    /\ UNCHANGED <<KeepRunning, startFlag, stopFlag, sample, sThread, iThread,
                   command, report, resetSeq, outlet, dsiPc, impPc>>
    /\ UNCHANGED <<devVars, envVars, histVars, guiVars>>

\* ------------------------------------------------------------ acquisition thread
\* DsiLoopTest with a loop condition that never reads the run flag: while (1).
DsiLoopTestForever ==
    /\ Alive
    /\ dsiPc = "d_test"
    /\ dsiPc' = "d_idle"
    /\ UNCHANGED <<KeepRunning, startFlag, stopFlag, sample, sThread, iThread,
                   command, report, resetSeq, outlet, mainPc, impPc, exitStatus>>
    /\ UNCHANGED <<devVars, envVars, histVars, guiVars>>

\* while (KeepRunning == 1)
DsiLoopTest ==
    /\ Alive
    /\ dsiPc = "d_test"
    /\ dsiPc' = IF KeepRunning = 1 THEN "d_idle" ELSE "done"
    /\ UNCHANGED <<KeepRunning, startFlag, stopFlag, sample, sThread, iThread,
                   command, report, resetSeq, outlet, mainPc, impPc, exitStatus>>
    /\ UNCHANGED <<devVars, envVars, histVars, guiVars>>

\* The statements of startAnalogReset, during which the dispatcher reads no command.
ResetSequencePcs ==
    {"rz_chk274", "rz_reset", "rz_chk282"}

\* DSI_Thread_Paused as it would be had main raised it around the analog reset.
DSI_Thread_PausedDuringReset ==
    IF mainPc \in ResetSequencePcs THEN 1 ELSE 0

\* static volatile int DSI_Thread_Paused = 0;      (never written)
DSI_Thread_Paused ==
    0

\* if (!DSI_Thread_Paused) { DSI_Headset_Idle(h, 0.0); ...    else: Sleep and loop
DsiIdle ==
    /\ Alive
    /\ dsiPc = "d_idle"
    /\ IF DSI_Thread_Paused = 0
       THEN /\ \E deliver \in BOOLEAN, sig \in Packets(nChannels), f \in BOOLEAN :
                 /\ HeadsetIdle(deliver, sig)
                 /\ RaisesFault(f)
                 /\ idleFault' = f
            /\ dsiPc' = "d_check"
       ELSE /\ dsiPc' = "d_test"
            /\ UNCHANGED <<signal, sample, lastPush, faults, dsiError, idleFault>>
    /\ UNCHANGED <<KeepRunning, startFlag, stopFlag, sThread, iThread, command,
                   report, resetSeq, outlet, mainPc, impPc, exitStatus>>
    /\ UNCHANGED <<headset, nChannels, samplingRate, nCmds>>
    /\ UNCHANGED <<cycBoth, cycStart, pairB, pairOffOn, startReq,
                   stopReq, tdLog, errShown, finFault, guiVars, lateReq>>

\* if (CheckError() != 0) { fprintf(stderr, "Error in DSI processing thread..."); ...
DsiCheckError ==
    /\ Alive
    /\ dsiPc = "d_check"
    /\ dsiPc' = IF CheckErrorResult # 0 THEN "d_stop" ELSE "d_test"
    /\ CheckErrorEffect
    /\ idleFault' = FALSE
    /\ CheckErrorMessage("dsi")
    /\ UNCHANGED <<KeepRunning, startFlag, stopFlag, sample, sThread, iThread,
                   command, report, resetSeq, outlet, mainPc, impPc, exitStatus>>
    /\ UNCHANGED <<headset, nChannels, samplingRate, signal, envVars>>
    /\ UNCHANGED <<cycBoth, cycStart, pairB, pairOffOn, startReq,
                   stopReq, tdLog, lastPush, lateReq, finFault, guiVars>>

\* DsiRequestStop writing KeepRunning = !KeepRunning instead of 0.
DsiRequestStopToggle ==
    /\ Alive
    /\ dsiPc = "d_stop"
    /\ KeepRunning' = 1 - KeepRunning
    /\ dsiPc' = "d_test"
    /\ ActedOnError("dsi")
    /\ UNCHANGED <<startFlag, stopFlag, sample, sThread, iThread, command, report, resetSeq,
                   outlet, mainPc, impPc, exitStatus>>
    /\ UNCHANGED <<devVars, envVars>>
    /\ UNCHANGED <<cycBoth, cycStart, pairB, pairOffOn, idleFault, startReq, stopReq, tdLog,
                   lastPush, lateReq, finFault, guiVars>>

\* ... KeepRunning = 0; }  Sleep(BUFFER_SECONDS);
DsiRequestStop ==
    /\ Alive
    /\ dsiPc = "d_stop"
    /\ KeepRunning' = 0
    /\ dsiPc' = "d_test"
    /\ ActedOnError("dsi")
    /\ UNCHANGED <<startFlag, stopFlag, sample, sThread, iThread, command, report, resetSeq,
                   outlet, mainPc, impPc, exitStatus>>
    /\ UNCHANGED <<devVars, envVars>>
    /\ UNCHANGED <<cycBoth, cycStart, pairB, pairOffOn, idleFault, startReq, stopReq, tdLog,
                   lastPush, lateReq, finFault, guiVars>>

DSI_Processing_Thread ==
    \/ DsiLoopTest
    \/ DsiIdle
    \/ DsiCheckError
    \/ DsiRequestStop

\* ------------------------------------------------------------ impedance thread
\* The worker has read startFlag set and has not yet called the start driver.
CommittedToStart ==
    impPc \in {"i_ci298", "i_start"}

\* The worker has read stopFlag set and has not yet called the stop driver.
CommittedToStop ==
    impPc = "i_stop"

\* The worker has tested startFlag set (line 109) and not yet cleared it (line 111).
TestedStart ==
    impPc \in {"i_ci298", "i_start", "i_ci299", "i_chk110", "i_clrStart"}

\* The worker has tested stopFlag set (line 117) and not yet cleared it (line 120).
TestedStop ==
    impPc \in {"i_stop", "i_chk118", "i_clrStop"}

\* A flag read by the worker ends a checkZOn, checkZOff pair (or a checkZOff,
\* checkZOn pair) still being typed.
FlagReadByWorker ==
    /\ pairB' = IF pairB = "on" THEN "idle" ELSE pairB
    /\ pairOffOn' = IF pairOffOn = "off" THEN "idle" ELSE pairOffOn

\* ImpLoopTest with a loop condition that never reads the run flag: while (1).
ImpLoopTestForever ==
    /\ Alive
    /\ impPc = "i_test"
    /\ impPc' = "i_rdStart"
    /\ cycBoth' = (startFlag = 1 /\ stopFlag = 1)
    /\ cycStart' = FALSE
    /\ UNCHANGED <<KeepRunning, startFlag, stopFlag, sample, sThread, iThread,
                   command, report, resetSeq, outlet, mainPc, dsiPc, exitStatus>>
    /\ UNCHANGED <<devVars, envVars>>
    /\ UNCHANGED <<pairB, pairOffOn, idleFault, startReq, stopReq, tdLog, lastPush,
                   errShown, finFault, guiVars, lateReq>>

\* while (KeepRunning == 1)                                   (a polling cycle begins)
ImpLoopTest ==
    /\ Alive
    /\ impPc = "i_test"
    /\ impPc' = IF KeepRunning = 1 THEN "i_rdStart" ELSE "done"
    /\ cycBoth' = (KeepRunning = 1 /\ startFlag = 1 /\ stopFlag = 1)
    /\ cycStart' = FALSE
    /\ UNCHANGED <<KeepRunning, startFlag, stopFlag, sample, sThread, iThread,
                   command, report, resetSeq, outlet, mainPc, dsiPc, exitStatus>>
    /\ UNCHANGED <<devVars, envVars>>
    /\ UNCHANGED <<pairB, pairOffOn, idleFault, startReq, stopReq, tdLog, lastPush, errShown,
                   finFault, guiVars, lateReq>>

\* if (params->startFlag)
ImpReadStartFlag ==
    /\ Alive
    /\ impPc = "i_rdStart"
    /\ impPc' = IF startFlag # 0 THEN "i_ci298" ELSE "i_rdStop"
    /\ FlagReadByWorker
    /\ cycBoth' = (cycBoth /\ startFlag # 0)
    /\ UNCHANGED <<KeepRunning, startFlag, stopFlag, sample, sThread, iThread,
                   command, report, resetSeq, outlet, mainPc, dsiPc, exitStatus>>
    /\ UNCHANGED <<devVars, envVars>>
    /\ UNCHANGED <<cycStart, idleFault, startReq, stopReq, tdLog, lastPush, errShown,
                   finFault, guiVars, lateReq>>

\* CheckImpedance: fprintf( stderr, "---------Starting Impedance Driver..." ); CHECK
\* A pending error is cleared and CheckImpedance returns -1 before the driver call;
\* its caller ignores the result.
CheckImpedanceEntryCheck ==
    /\ Alive
    /\ impPc = "i_ci298"
    /\ impPc' = IF CheckErrorResult # 0 THEN "i_chk110" ELSE "i_start"
    /\ CheckErrorEffect
    /\ cycBoth' = (cycBoth /\ CheckErrorResult = 0)
    /\ UNCHANGED <<KeepRunning, startFlag, stopFlag, sample, sThread, iThread,
                   command, report, resetSeq, outlet, mainPc, dsiPc, exitStatus>>
    /\ UNCHANGED <<headset, nChannels, samplingRate, signal, envVars>>
    /\ UNCHANGED <<cycStart, pairB, pairOffOn, idleFault, startReq, stopReq,
                   tdLog, lastPush, errShown, finFault, guiVars, lateReq>>

\* CheckImpedanceStartDriver made to wait while the dispatcher is inside
\* DSI_Headset_StartAnalogReset (the two calls under one lock).
CheckImpedanceStartDriverSerialized ==
    /\ Alive
    /\ impPc = "i_start"
    /\ mainPc # "rz_reset"
    /\ impPc' = "i_ci299"
    /\ \E f \in BOOLEAN :
         /\ RaisesFault(f)
         /\ headset' = IF f THEN headset ELSE [headset EXCEPT !.impDriver = TRUE]
    /\ cycStart' = TRUE
    /\ startReq' = [startReq EXCEPT !.calls = @ + 1]
    /\ UNCHANGED <<KeepRunning, startFlag, stopFlag, sample, sThread, iThread,
                   command, report, resetSeq, outlet, mainPc, dsiPc, exitStatus>>
    /\ UNCHANGED <<nChannels, samplingRate, signal, nCmds>>
    /\ UNCHANGED <<cycBoth, pairB, pairOffOn, idleFault, stopReq, tdLog, lastPush, errShown,
                   finFault, guiVars, lateReq>>

\* CheckImpedance: DSI_Headset_StartImpedanceDriver( h );
CheckImpedanceStartDriver ==
    /\ Alive
    /\ impPc = "i_start"
    /\ impPc' = "i_ci299"
    /\ \E f \in BOOLEAN :
         /\ RaisesFault(f)
         /\ headset' = IF f THEN headset ELSE [headset EXCEPT !.impDriver = TRUE]
    /\ cycStart' = TRUE
    /\ startReq' = [startReq EXCEPT !.calls = @ + 1]
    /\ UNCHANGED <<KeepRunning, startFlag, stopFlag, sample, sThread, iThread,
                   command, report, resetSeq, outlet, mainPc, dsiPc, exitStatus>>
    /\ UNCHANGED <<nChannels, samplingRate, signal, nCmds>>
    /\ UNCHANGED <<cycBoth, pairB, pairOffOn, idleFault, stopReq, tdLog, lastPush, errShown,
                   finFault, guiVars, lateReq>>

\* CheckImpedanceExitCheck with line 309 in force:
\* DSI_Headset_SetSampleCallback( h, PrintImpedances, NULL ) when CHECK passes.
CheckImpedanceExitCheckPrinting ==
    /\ Alive
    /\ impPc = "i_ci299"
    /\ impPc' = "i_chk110"
    /\ CheckErrorEffect
    /\ cycBoth' = FALSE
    /\ headset' = IF dsiError THEN headset
                  ELSE [headset EXCEPT !.callback = "PrintImpedances"]
    /\ UNCHANGED <<KeepRunning, startFlag, stopFlag, sample, sThread, iThread,
                   command, report, resetSeq, outlet, mainPc, dsiPc, exitStatus>>
    /\ UNCHANGED <<nChannels, samplingRate, signal, envVars>>
    /\ UNCHANGED <<cycStart, pairB, pairOffOn, idleFault, startReq, stopReq,
                   tdLog, lastPush, errShown, finFault, guiVars, lateReq>>

\* CheckImpedance: CHECK after the driver call; return 0 or -1 (ignored by the caller)
\* (the calls that would print impedances and register PrintImpedances, lines
\* 306-309, are commented out)
CheckImpedanceExitCheck ==
    /\ Alive
    /\ impPc = "i_ci299"
    /\ impPc' = "i_chk110"
    /\ CheckErrorEffect
    /\ cycBoth' = FALSE
    /\ UNCHANGED <<KeepRunning, startFlag, stopFlag, sample, sThread, iThread,
                   command, report, resetSeq, outlet, mainPc, dsiPc, exitStatus>>
    /\ UNCHANGED <<headset, nChannels, samplingRate, signal, envVars>>
    /\ UNCHANGED <<cycStart, pairB, pairOffOn, idleFault, startReq, stopReq,
                   tdLog, lastPush, errShown, finFault, guiVars, lateReq>>

\* CheckImpedance( h ); CHECK        (CHECK in the thread function: return -1)
ImpCheckAfterStart ==
    /\ Alive
    /\ impPc = "i_chk110"
    /\ impPc' = IF CheckErrorResult # 0 THEN "done" ELSE "i_clrStart"
    /\ CheckErrorEffect
    /\ cycStart' = (cycStart /\ CheckErrorResult = 0)
    /\ lateReq' = IF CheckErrorResult # 0 THEN {} ELSE lateReq
    /\ UNCHANGED <<KeepRunning, startFlag, stopFlag, sample, sThread, iThread,
                   command, report, resetSeq, outlet, mainPc, dsiPc, exitStatus>>
    /\ UNCHANGED <<headset, nChannels, samplingRate, signal, envVars>>
    /\ UNCHANGED <<cycBoth, pairB, pairOffOn, idleFault, startReq, stopReq,
                   tdLog, lastPush, errShown, finFault, guiVars>>

\* params->startFlag = 0;
ImpClearStartFlag ==
    /\ Alive
    /\ impPc = "i_clrStart"
    /\ startFlag' = 0
    /\ impPc' = "i_rdStop"
    /\ startReq' = NewRequest
    /\ cycStart' = FALSE
    /\ lateReq' = lateReq \ {"start"}
    /\ pairOffOn' = IF pairOffOn = "armed" THEN "idle" ELSE pairOffOn
    /\ UNCHANGED <<KeepRunning, stopFlag, sample, sThread, iThread, command, report, resetSeq,
                   outlet, mainPc, dsiPc, exitStatus>>
    /\ UNCHANGED <<devVars, envVars>>
    /\ UNCHANGED <<cycBoth, pairB, idleFault,
                   stopReq, tdLog, lastPush, errShown, finFault, guiVars>>

\* if (params->stopFlag)
ImpReadStopFlag ==
    /\ Alive
    /\ impPc = "i_rdStop"
    /\ impPc' = IF stopFlag # 0 THEN "i_stop" ELSE "i_chk123"
    /\ FlagReadByWorker
    /\ UNCHANGED <<KeepRunning, startFlag, stopFlag, sample, sThread, iThread,
                   command, report, resetSeq, outlet, mainPc, dsiPc, exitStatus>>
    /\ UNCHANGED <<devVars, envVars>>
    /\ UNCHANGED <<cycBoth, cycStart, idleFault, startReq, stopReq, tdLog, lastPush,
                   errShown, finFault, guiVars, lateReq>>

\* DSI_Headset_StopImpedanceDriver( h );
ImpStopDriver ==
    /\ Alive
    /\ impPc = "i_stop"
    /\ impPc' = "i_chk118"
    /\ \E f \in BOOLEAN :
         /\ RaisesFault(f)
         /\ headset' = IF f THEN headset ELSE [headset EXCEPT !.impDriver = FALSE]
    /\ stopReq' = [stopReq EXCEPT !.calls = @ + 1]
    /\ UNCHANGED <<KeepRunning, startFlag, stopFlag, sample, sThread, iThread,
                   command, report, resetSeq, outlet, mainPc, dsiPc, exitStatus>>
    /\ UNCHANGED <<nChannels, samplingRate, signal, nCmds>>
    /\ UNCHANGED <<cycBoth, cycStart, pairB, pairOffOn, idleFault, startReq, tdLog, lastPush,
                   errShown, finFault, guiVars, lateReq>>

\* CHECK after the stop call     (CHECK in the thread function: return -1)
ImpCheckAfterStop ==
    /\ Alive
    /\ impPc = "i_chk118"
    /\ impPc' = IF CheckErrorResult # 0 THEN "done" ELSE "i_clrStop"
    /\ CheckErrorEffect
    /\ lateReq' = IF CheckErrorResult # 0 THEN {} ELSE lateReq
    /\ UNCHANGED <<KeepRunning, startFlag, stopFlag, sample, sThread, iThread,
                   command, report, resetSeq, outlet, mainPc, dsiPc, exitStatus>>
    /\ UNCHANGED <<headset, nChannels, samplingRate, signal, envVars>>
    /\ UNCHANGED <<cycBoth, cycStart, pairB, pairOffOn, idleFault, startReq, stopReq, tdLog,
                   lastPush, errShown, finFault, guiVars>>

\* fprintf(stderr, "----------Stopped Impedance Driver---"); params->stopFlag = 0;
ImpClearStopFlag ==
    /\ Alive
    /\ impPc = "i_clrStop"
    /\ stopFlag' = 0
    /\ impPc' = "i_chk123"
    /\ pairB' = IF pairB = "armed" THEN "idle" ELSE pairB
    /\ pairOffOn' = pairOffOn
    /\ stopReq' = NewRequest
    /\ lateReq' = lateReq \ {"stop"}
    /\ UNCHANGED <<KeepRunning, startFlag, sample, sThread, iThread, command, report, resetSeq,
                   outlet, mainPc, dsiPc, exitStatus>>
    /\ UNCHANGED <<devVars, envVars>>
    /\ UNCHANGED <<cycBoth, cycStart, idleFault, startReq,
                   tdLog, lastPush, errShown, finFault, guiVars>>

\* if (CheckError() != 0) { fprintf(stderr, "Error in DSI processing thread..."); ...
ImpCheckError ==
    /\ Alive
    /\ impPc = "i_chk123"
    /\ impPc' = IF CheckErrorResult # 0 THEN "i_stopRun" ELSE "i_test"
    /\ CheckErrorEffect
    /\ CheckErrorMessage("imp")
    /\ UNCHANGED <<KeepRunning, startFlag, stopFlag, sample, sThread, iThread,
                   command, report, resetSeq, outlet, mainPc, dsiPc, exitStatus>>
    /\ UNCHANGED <<headset, nChannels, samplingRate, signal, envVars>>
    /\ UNCHANGED <<cycBoth, cycStart, pairB, pairOffOn, idleFault, startReq, stopReq, tdLog,
                   lastPush, lateReq, finFault, guiVars>>

\* ... KeepRunning = 0; }
ImpRequestStop ==
    /\ Alive
    /\ impPc = "i_stopRun"
    /\ KeepRunning' = 0
    /\ impPc' = "i_test"
    /\ ActedOnError("imp")
    /\ UNCHANGED <<startFlag, stopFlag, sample, sThread, iThread, command, report, resetSeq,
                   outlet, mainPc, dsiPc, exitStatus>>
    /\ UNCHANGED <<devVars, envVars>>
    /\ UNCHANGED <<cycBoth, cycStart, pairB, pairOffOn, idleFault, startReq, stopReq, tdLog,
                   lastPush, lateReq, finFault, guiVars>>

ImpedanceThread ==
    \/ ImpLoopTest
    \/ ImpReadStartFlag
    \/ CheckImpedanceEntryCheck
    \/ CheckImpedanceStartDriver
    \/ CheckImpedanceExitCheck
    \/ ImpCheckAfterStart
    \/ ImpClearStartFlag
    \/ ImpReadStopFlag
    \/ ImpStopDriver
    \/ ImpCheckAfterStop
    \/ ImpClearStopFlag
    \/ ImpCheckError
    \/ ImpRequestStop

\* ------------------------------------------------------------ main: command loop
\* Sleep(BUFFER_SECONDS); } while( KeepRunning==1 )
\* The handling of the line last read is over: the content of command is not
\* read again (fgets overwrites it, or the loop is left).
MainLoopTest ==
    /\ mainPc = "m_test"
    /\ mainPc' = IF KeepRunning = 1 THEN "m_read" ELSE "m_joinS"
    /\ command' = "none"
    /\ report' = "none"
    /\ resetSeq' = "idle"
    /\ UNCHANGED <<KeepRunning, startFlag, stopFlag, sample, sThread, iThread,
                   outlet, dsiPc, impPc, exitStatus>>
    /\ UNCHANGED <<devVars, envVars, histVars, guiVars>>

\* The strcmp chain: checkZOn, checkZOff, resetZ; any other line (`exit` too)
\* matches no branch and falls through to Sleep(BUFFER_SECONDS).
Dispatch(tok) ==
    CASE tok = "checkZOn" -> "m_on1"
      [] tok = "checkZOff" -> "m_off1"
      [] tok = "resetZ" -> "rz_chk274"
      [] tok = "EOF" -> "m_joinS"
      [] OTHER -> "m_test"

\* if (fgets(command, MAX_COMMAND_LENGTH, stdin) == NULL) { ...; break; }
\* command[strcspn(command, "\n")] = 0;  if (strcmp(command, ...) == 0) ...
\* fgets blocks until the operator provides a line or the input ends; the
\* comparisons that follow touch only the dispatcher's own buffer.  The only
\* message about the line is the one printed when fgets returns NULL
\* ("Error reading input or EOF reached."): the strcmp chain has no final else.
MainReadLine ==
    /\ mainPc = "m_read"
    /\ nCmds < MaxCmds
    /\ nCmds' = nCmds + 1
    /\ \E tok \in Tokens :
         /\ command' = tok
         /\ report' = IF tok = "EOF" THEN "eof" ELSE "none"
         /\ resetSeq' = IF tok = "resetZ" THEN "requested" ELSE "idle"
         /\ mainPc' = Dispatch(tok)
         /\ pairB' = CASE tok = "checkZOn" -> IF CommittedToStart THEN "idle" ELSE "on"
                       [] tok = "checkZOff" -> pairB
                       [] OTHER -> IF pairB = "on" THEN "idle" ELSE pairB
         /\ pairOffOn' = CASE tok = "checkZOff" -> IF CommittedToStop THEN "idle" ELSE "off"
                           [] tok = "checkZOn" -> pairOffOn
                           [] OTHER -> IF pairOffOn = "off" THEN "idle" ELSE pairOffOn
    /\ UNCHANGED <<KeepRunning, startFlag, stopFlag, sample, sThread, iThread,
                   outlet, dsiPc, impPc, exitStatus>>
    /\ UNCHANGED <<devVars, faults>>
    /\ UNCHANGED <<cycBoth, cycStart, idleFault, startReq, stopReq, tdLog, lastPush,
                   errShown, finFault, guiVars, lateReq>>

\* MainCheckZOnStopFlag without the write that cancels a pending stop.
MainCheckZOnStopFlagKept ==
    /\ mainPc = "m_on1"
    /\ mainPc' = "m_on2"
    /\ UNCHANGED <<KeepRunning, startFlag, stopFlag, sample, sThread, iThread,
                   command, report, resetSeq, outlet, dsiPc, impPc, exitStatus>>
    /\ UNCHANGED <<devVars, envVars, histVars, guiVars>>

\* checkZOn: zFLag.stopFlag = 0;
MainCheckZOnStopFlag ==
    /\ mainPc = "m_on1"
    /\ stopFlag' = 0
    /\ mainPc' = "m_on2"
    /\ stopReq' = NewRequest
    /\ lateReq' = lateReq \ {"stop"}
    /\ UNCHANGED <<KeepRunning, startFlag, sample, sThread, iThread, command, report, resetSeq,
                   outlet, dsiPc, impPc, exitStatus>>
    /\ UNCHANGED <<devVars, envVars>>
    /\ UNCHANGED <<cycBoth, cycStart, pairB, pairOffOn, idleFault,
                   startReq, tdLog, lastPush, errShown, finFault, guiVars>>

\* checkZOn: zFLag.startFlag = 1;  Sleep(BUFFER_SECONDS);
MainCheckZOnStartFlag ==
    /\ mainPc = "m_on2"
    /\ startFlag' = 1
    /\ mainPc' = "m_test"
    /\ startReq' = Requested(startReq, startFlag)
    /\ lateReq' = IF TestedStart THEN lateReq \cup {"start"} ELSE lateReq
    /\ pairOffOn' = IF pairOffOn = "off" THEN "armed" ELSE pairOffOn
    /\ UNCHANGED <<KeepRunning, stopFlag, sample, sThread, iThread, command, report, resetSeq,
                   outlet, dsiPc, impPc, exitStatus>>
    /\ UNCHANGED <<devVars, envVars>>
    /\ UNCHANGED <<cycBoth, cycStart, pairB, idleFault,
                   stopReq, tdLog, lastPush, errShown, finFault, guiVars>>

\* checkZOff: zFLag.stopFlag = 1;
MainCheckZOffStopFlag ==
    /\ mainPc = "m_off1"
    /\ stopFlag' = 1
    /\ mainPc' = "m_off2"
    /\ stopReq' = Requested(stopReq, stopFlag)
    /\ lateReq' = IF TestedStop THEN lateReq \cup {"stop"} ELSE lateReq
    /\ UNCHANGED <<KeepRunning, startFlag, sample, sThread, iThread, command, report, resetSeq,
                   outlet, dsiPc, impPc, exitStatus>>
    /\ UNCHANGED <<devVars, envVars>>
    /\ UNCHANGED <<cycBoth, cycStart, pairB, pairOffOn, idleFault,
                   startReq, tdLog, lastPush, errShown, finFault, guiVars>>

\* MainCheckZOffStartFlag without the write that cancels a pending start.
MainCheckZOffStartFlagKept ==
    /\ mainPc = "m_off2"
    /\ mainPc' = "m_test"
    /\ pairB' = IF pairB = "on" THEN "armed" ELSE pairB
    /\ pairOffOn' = pairOffOn
    /\ UNCHANGED <<KeepRunning, startFlag, stopFlag, sample, sThread, iThread,
                   command, report, resetSeq, outlet, dsiPc, impPc, exitStatus>>
    /\ UNCHANGED <<devVars, envVars>>
    /\ UNCHANGED <<cycBoth, cycStart, idleFault, startReq,
                   stopReq, tdLog, lastPush, errShown, finFault, guiVars, lateReq>>

\* checkZOff: zFLag.startFlag = 0;  Sleep(BUFFER_SECONDS);
MainCheckZOffStartFlag ==
    /\ mainPc = "m_off2"
    /\ startFlag' = 0
    /\ mainPc' = "m_test"
    /\ pairB' = IF pairB = "on" THEN "armed" ELSE pairB
    /\ pairOffOn' = pairOffOn
    /\ startReq' = NewRequest
    /\ lateReq' = lateReq \ {"start"}
    /\ UNCHANGED <<KeepRunning, stopFlag, sample, sThread, iThread, command, report, resetSeq,
                   outlet, dsiPc, impPc, exitStatus>>
    /\ UNCHANGED <<devVars, envVars>>
    /\ UNCHANGED <<cycBoth, cycStart, idleFault, stopReq,
                   tdLog, lastPush, errShown, finFault, guiVars>>

\* startAnalogReset: fprintf( stderr, "---------Starting Analog Reset---" ); CHECK
startAnalogResetEntryCheck ==
    /\ mainPc = "rz_chk274"
    /\ mainPc' = IF CheckErrorResult # 0 THEN "m_chk237" ELSE "rz_reset"
    /\ CheckErrorEffect
    /\ UNCHANGED <<KeepRunning, startFlag, stopFlag, sample, sThread, iThread,
                   command, report, resetSeq, outlet, dsiPc, impPc, exitStatus>>
    /\ UNCHANGED <<headset, nChannels, samplingRate, signal, envVars, histVars, guiVars>>

\* startAnalogReset: DSI_Headset_GetAnalogResetMode(h); DSI_Headset_StartAnalogReset(h);
startAnalogResetCall ==
    /\ mainPc = "rz_reset"
    /\ mainPc' = "rz_chk282"
    /\ \E f \in BOOLEAN :
         /\ RaisesFault(f)
         /\ resetSeq' = IF f THEN "idle" ELSE "started"
    /\ UNCHANGED <<KeepRunning, startFlag, stopFlag, sample, sThread, iThread,
                   command, report, outlet, dsiPc, impPc, exitStatus>>
    /\ UNCHANGED <<headset, nChannels, samplingRate, signal, nCmds, histVars, guiVars>>

\* startAnalogReset: CHECK; DSI_Sleep(BUFFER_SECONDS); return 0   (result ignored)
\* A pending error makes CHECK return -1 before the settle delay of DSI_Sleep.
startAnalogResetExitCheck ==
    /\ mainPc = "rz_chk282"
    /\ mainPc' = "m_chk237"
    /\ resetSeq' = IF CheckErrorResult # 0 THEN resetSeq ELSE "idle"
    /\ CheckErrorEffect
    /\ UNCHANGED <<KeepRunning, startFlag, stopFlag, sample, sThread, iThread,
                   command, report, outlet, dsiPc, impPc, exitStatus>>
    /\ UNCHANGED <<headset, nChannels, samplingRate, signal, envVars, histVars, guiVars>>

\* resetZ: startAnalogReset( h ); CHECK      (CHECK in main: return -1)
MainCheckAfterReset ==
    /\ mainPc = "m_chk237"
    /\ mainPc' = IF CheckErrorResult # 0 THEN "ret" ELSE "m_test"
    /\ exitStatus' = IF CheckErrorResult # 0 THEN -1 ELSE exitStatus
    /\ CheckErrorEffect
    /\ UNCHANGED <<KeepRunning, startFlag, stopFlag, sample, sThread, iThread,
                   command, report, resetSeq, outlet, dsiPc, impPc>>
    /\ UNCHANGED <<headset, nChannels, samplingRate, signal, envVars, histVars, guiVars>>

\* ------------------------------------------------------------ main: joins
\* MainJoinProcessingThread with a wait that returns at once (timeout 0).
MainJoinProcessingThreadNoWait ==
    /\ mainPc = "m_joinS"
    /\ sThread' = IF sThread = "open" THEN "closed" ELSE sThread
    /\ mainPc' = "m_joinI"
    /\ UNCHANGED <<KeepRunning, startFlag, stopFlag, sample, iThread, command, report,
                   resetSeq, outlet, dsiPc, impPc, exitStatus>>
    /\ UNCHANGED <<devVars, envVars, histVars, guiVars>>

\* if (sThread != NULL) { WaitForSingleObject(sThread, INFINITE); CloseHandle(sThread); }
MainJoinProcessingThread ==
    /\ mainPc = "m_joinS"
    /\ sThread = "open" => dsiPc = "done"
    /\ sThread' = IF sThread = "open" THEN "closed" ELSE sThread
    /\ mainPc' = "m_joinI"
    /\ UNCHANGED <<KeepRunning, startFlag, stopFlag, sample, iThread, command, report, resetSeq,
                   outlet, dsiPc, impPc, exitStatus>>
    /\ UNCHANGED <<devVars, envVars, histVars, guiVars>>

\* MainJoinImpedanceThread with a wait that returns at once (timeout 0).
MainJoinImpedanceThreadNoWait ==
    /\ mainPc = "m_joinI"
    /\ iThread' = IF iThread = "open" THEN "closed" ELSE iThread
    /\ mainPc' = "m_destroy"
    /\ UNCHANGED <<KeepRunning, startFlag, stopFlag, sample, sThread, command, report, resetSeq,
                   outlet, dsiPc, impPc, exitStatus>>
    /\ UNCHANGED <<devVars, envVars, histVars, guiVars>>

\* if (iThread != NULL) { WaitForSingleObject(iThread, INFINITE); CloseHandle(iThread); }
MainJoinImpedanceThread ==
    /\ mainPc = "m_joinI"
    /\ iThread = "open" => impPc = "done"
    /\ iThread' = IF iThread = "open" THEN "closed" ELSE iThread
    /\ mainPc' = "m_destroy"
    /\ UNCHANGED <<KeepRunning, startFlag, stopFlag, sample, sThread, command, report, resetSeq,
                   outlet, dsiPc, impPc, exitStatus>>
    /\ UNCHANGED <<devVars, envVars, histVars, guiVars>>

\* ------------------------------------------------------------ main: teardown
\* lsl_destroy_outlet(outlet); return Finish( h );
MainDestroyOutlet ==
    /\ mainPc = "m_destroy"
    /\ outlet' = [outlet EXCEPT !.state = IF @ = "NULL" THEN "NULL" ELSE "destroyed"]
    /\ tdLog' = Append(tdLog, "destroyOutlet")
    /\ mainPc' = "f_detach"
    /\ UNCHANGED <<KeepRunning, startFlag, stopFlag, sample, sThread, iThread,
                   command, report, resetSeq, dsiPc, impPc, exitStatus>>
    /\ UNCHANGED <<devVars, envVars>>
    /\ UNCHANGED <<cycBoth, cycStart, pairB, pairOffOn, idleFault, startReq, stopReq, lastPush,
                   errShown, finFault, guiVars, lateReq>>

\* Finish: DSI_Headset_SetSampleCallback( h, NULL, NULL );
FinishDetachCallback ==
    /\ mainPc = "f_detach"
    /\ \E f \in BOOLEAN :
         /\ RaisesFault(f)
         /\ finFault' = (finFault \/ f)
         /\ headset' = IF f THEN headset ELSE [headset EXCEPT !.callback = "NULL"]
    /\ tdLog' = Append(tdLog, "detachCallback")
    /\ mainPc' = "f_chk400"
    /\ UNCHANGED <<KeepRunning, startFlag, stopFlag, sample, sThread, iThread,
                   command, report, resetSeq, outlet, dsiPc, impPc, exitStatus>>
    /\ UNCHANGED <<nChannels, samplingRate, signal, nCmds>>
    /\ UNCHANGED <<cycBoth, cycStart, pairB, pairOffOn, idleFault, startReq, stopReq, lastPush,
                   errShown, guiVars, lateReq>>

\* Finish: DSI_Headset_StopDataAcquisition( h );
FinishStopDataAcquisition ==
    /\ mainPc = "f_stopAcq"
    /\ \E f \in BOOLEAN :
         /\ RaisesFault(f)
         /\ finFault' = (finFault \/ f)
         /\ headset' = IF f THEN headset ELSE [headset EXCEPT !.acquiring = FALSE]
    /\ tdLog' = Append(tdLog, "stopAcquisition")
    /\ mainPc' = "f_chk403"
    /\ UNCHANGED <<KeepRunning, startFlag, stopFlag, sample, sThread, iThread,
                   command, report, resetSeq, outlet, dsiPc, impPc, exitStatus>>
    /\ UNCHANGED <<nChannels, samplingRate, signal, nCmds>>
    /\ UNCHANGED <<cycBoth, cycStart, pairB, pairOffOn, idleFault, startReq, stopReq, lastPush,
                   errShown, guiVars, lateReq>>

\* Finish: DSI_Headset_Idle( h, 1.0 );      (the drain window)
FinishIdle ==
    /\ mainPc = "f_idle"
    /\ \E deliver \in BOOLEAN, sig \in Packets(nChannels), f \in BOOLEAN :
         /\ HeadsetIdle(deliver, sig)
         /\ RaisesFault(f)
         /\ finFault' = (finFault \/ f)
    /\ tdLog' = Append(tdLog, "drain")
    /\ mainPc' = "f_chk410"
    /\ UNCHANGED <<KeepRunning, startFlag, stopFlag, sThread, iThread, command, report, resetSeq,
                   outlet, dsiPc, impPc, exitStatus>>
    /\ UNCHANGED <<headset, nChannels, samplingRate, nCmds>>
    /\ UNCHANGED <<cycBoth, cycStart, pairB, pairOffOn, idleFault, startReq, stopReq,
                   errShown, guiVars, lateReq>>

\* Finish: DSI_Headset_Delete( h );
FinishDelete ==
    /\ mainPc = "f_delete"
    /\ \E f \in BOOLEAN :
         /\ RaisesFault(f)
         /\ finFault' = (finFault \/ f)
         /\ headset' = [headset EXCEPT !.state = "deleted"]
    /\ tdLog' = Append(tdLog, "deleteHeadset")
    /\ mainPc' = "f_chk416"
    /\ UNCHANGED <<KeepRunning, startFlag, stopFlag, sample, sThread, iThread,
                   command, report, resetSeq, outlet, dsiPc, impPc, exitStatus>>
    /\ UNCHANGED <<nChannels, samplingRate, signal, nCmds>>
    /\ UNCHANGED <<cycBoth, cycStart, pairB, pairOffOn, idleFault, startReq, stopReq, lastPush,
                   errShown, guiVars, lateReq>>

\* FinishAfterCheck with the drain window before the stop of data acquisition.
FinishAfterCheckSwapped(pc) ==
    CASE pc = "f_chk400" -> "f_idle"
      [] pc = "f_chk410" -> "f_stopAcq"
      [] pc = "f_chk403" -> "f_delete"
      [] pc = "f_chk416" -> "ret"

\* Where Finish continues after the CHECK at each of its four calls.
FinishAfterCheck(pc) ==
    CASE pc = "f_chk400" -> "f_stopAcq"
      [] pc = "f_chk403" -> "f_idle"
      [] pc = "f_chk410" -> "f_delete"
      [] pc = "f_chk416" -> "ret"

\* Finish: CHECK after each call (return -1), and return 0 after the last;
\* main returns what Finish returned.
FinishCheck ==
    /\ mainPc \in {"f_chk400", "f_chk403", "f_chk410", "f_chk416"}
    /\ mainPc' = IF CheckErrorResult # 0 THEN "ret" ELSE FinishAfterCheck(mainPc)
    /\ exitStatus' = IF CheckErrorResult # 0 THEN -1 ELSE 0
    /\ CheckErrorEffect
    /\ UNCHANGED <<KeepRunning, startFlag, stopFlag, sample, sThread, iThread,
                   command, report, resetSeq, outlet, dsiPc, impPc>>
    /\ UNCHANGED <<headset, nChannels, samplingRate, signal, envVars, histVars, guiVars>>

Finish ==
    \/ FinishDetachCallback
    \/ FinishStopDataAcquisition
    \/ FinishIdle
    \/ FinishDelete
    \/ FinishCheck

\* Every step of main except the blocking read of the control input.
MainNoInput ==
    \/ MainStartUp
    \/ MainInitLSL
    \/ MainSetSampleCallback
    \/ MainStartDataAcquisition
    \/ MainCreateImpedanceThread
    \/ MainCreateProcessingThread
    \/ MainLoopTest
    \/ MainCheckZOnStopFlag
    \/ MainCheckZOnStartFlag
    \/ MainCheckZOffStopFlag
    \/ MainCheckZOffStartFlag
    \/ startAnalogResetEntryCheck
    \/ startAnalogResetCall
    \/ startAnalogResetExitCheck
    \/ MainCheckAfterReset
    \/ MainJoinProcessingThread
    \/ MainJoinImpedanceThread
    \/ MainDestroyOutlet
    \/ Finish

Next ==
    \/ QuitHandler
    \/ OnSampleNullOutlet
    \/ MainNoInput
    \/ MainReadLine
    \/ DSI_Processing_Thread
    \/ ImpedanceThread

Spec ==
    Init /\ [][Next]_vars

\* Threads are scheduled by the operating system and every Device call returns:
\* a thread that can take a step eventually takes one.  The control input and
\* SIGINT are the operator's: nothing obliges them to happen.
FairSpec ==
    /\ Spec
    /\ WF_vars(MainNoInput)
    /\ WF_vars(DSI_Processing_Thread)
    /\ WF_vars(ImpedanceThread)

\* ============================================= the C++ variant (part_000)
\* src/unnamed/part_000 is the C++ conversion of the same program: one
\* streaming thread (streamLoop) and the dispatcher, which runs the impedance
\* check and the analog reset itself.  Its state is held in the variables of
\* the same meaning: KeepRunning is keepRunning (1 for true), dsiPc the position
\* of streamLoop, sThread the state of streamThread, mainPc the position of
\* main (positions c_...).  Only main calls CheckError, so each "call; CHECK"
\* pair of main is one step.  OnSample is the same function (lines 209-218).

\* What the C++ variant has no counterpart of, or never changes.
cppUnused ==
    <<startFlag, stopFlag, iThread, impPc, resetSeq, nChannels, samplingRate,
      cycBoth, cycStart, pairB, pairOffOn, idleFault, startReq, stopReq, errShown, lateReq,
      finFault, guiVars>>

\* Lines std::getline can deliver: "empty" is the empty line, "EOF" the end of
\* the input, "readError" a failed read that is not the end of the input.
CppTokens ==
    {"exit", "checkZ", "resetZ", "other", "empty", "EOF", "readError"}

\* Status of a process ended by std::terminate (abort).
Terminated ==
    3

\* return status; from main.  Past line 119 streamThread is destroyed on the
\* way out: the destructor of a joinable std::thread calls std::terminate.
CppReturn(status) ==
    /\ mainPc' = "ret"
    /\ exitStatus' = IF sThread = "joinable" THEN Terminated ELSE status

\* if (StartUp(argc, argv, &h, &help) != 0 || help) { GlobalHelp; return help ? 0 : 1; }
CppStartUp ==
    /\ mainPc = "StartUp"
    /\ \E help \in BOOLEAN, failAt \in 0..6 :
         /\ help => failAt = 0
         /\ failAt > 0 => faults < MaxFaults
         /\ faults' = IF failAt > 0 THEN faults + 1 ELSE faults
         /\ IF help
            THEN /\ mainPc' = "ret"
                 /\ exitStatus' = 0
                 /\ headset' = headset
            ELSE IF failAt > 0
            THEN /\ mainPc' = "ret"
                 /\ exitStatus' = 1
                 /\ headset' = [headset EXCEPT !.state =
                                  IF failAt = 1 THEN "none"
                                  ELSE IF failAt <= 4 THEN "new" ELSE "connected"]
            ELSE /\ mainPc' = "c_InitLSL"
                 /\ exitStatus' = exitStatus
                 /\ headset' = [headset EXCEPT !.state = "connected"]
    /\ UNCHANGED <<KeepRunning, sample, sThread, command, report, outlet, dsiPc>>
    /\ UNCHANGED <<dsiError, signal, nCmds, tdLog, lastPush, cppUnused>>

\* lsl_outlet outlet = InitLSL(h, streamName); CHECK;
CppInitLSL ==
    /\ mainPc = "c_InitLSL"
    /\ \E created \in BOOLEAN, f \in BOOLEAN :
         /\ outlet' = InitLSL(created)
         /\ (f \/ ~created) => faults < MaxFaults
         /\ ~created => ~f
         /\ faults' = IF ~created THEN MaxFaults ELSE IF f THEN faults + 1 ELSE faults
         /\ mainPc' = IF f THEN "ret" ELSE "c_SetSampleCallback"
         /\ exitStatus' = IF f THEN -1 ELSE exitStatus
    /\ UNCHANGED <<KeepRunning, sample, sThread, command, report, dsiPc>>
    /\ UNCHANGED <<dsiError, headset, signal, nCmds, tdLog, lastPush, cppUnused>>

\* DSI_Headset_SetSampleCallback(h, OnSample, outlet); CHECK;
CppSetSampleCallback ==
    /\ mainPc = "c_SetSampleCallback"
    /\ \E f \in BOOLEAN :
         /\ f => faults < MaxFaults
         /\ faults' = IF f THEN faults + 1 ELSE faults
         /\ mainPc' = IF f THEN "ret" ELSE "c_StartDataAcquisition"
         /\ exitStatus' = IF f THEN -1 ELSE exitStatus
         /\ headset' = IF f THEN headset ELSE [headset EXCEPT !.callback = "OnSample"]
    /\ UNCHANGED <<KeepRunning, sample, sThread, command, report, outlet, dsiPc>>
    /\ UNCHANGED <<dsiError, signal, nCmds, tdLog, lastPush, cppUnused>>

\* DSI_Headset_StartDataAcquisition(h); CHECK;
CppStartDataAcquisition ==
    /\ mainPc = "c_StartDataAcquisition"
    /\ \E f \in BOOLEAN :
         /\ f => faults < MaxFaults
         /\ faults' = IF f THEN faults + 1 ELSE faults
         /\ mainPc' = IF f THEN "ret" ELSE "c_thread"
         /\ exitStatus' = IF f THEN -1 ELSE exitStatus
         /\ headset' = IF f THEN headset ELSE [headset EXCEPT !.acquiring = TRUE]
    /\ UNCHANGED <<KeepRunning, sample, sThread, command, report, outlet, dsiPc>>
    /\ UNCHANGED <<dsiError, signal, nCmds, tdLog, lastPush, cppUnused>>

\* std::thread streamThread(streamLoop, h);
CppStartThread ==
    /\ mainPc = "c_thread"
    /\ sThread' = "joinable"
    /\ dsiPc' = "s_test"
    /\ mainPc' = "c_test"
    /\ UNCHANGED <<KeepRunning, sample, command, report, outlet, exitStatus>>
    /\ UNCHANGED <<devVars, envVars, histVars, guiVars>>
    /\ UNCHANGED <<startFlag, stopFlag, iThread, impPc, resetSeq>>

\* streamLoop: while (keepRunning)
CppStreamLoopTest ==
    /\ Alive
    /\ dsiPc = "s_test"
    /\ dsiPc' = IF KeepRunning = 1 THEN "s_idle" ELSE "done"
    /\ UNCHANGED <<KeepRunning, sample, sThread, command, report, outlet, mainPc, exitStatus>>
    /\ UNCHANGED <<devVars, envVars, histVars, guiVars>>
    /\ UNCHANGED <<startFlag, stopFlag, iThread, impPc, resetSeq>>

\* streamLoop: DSI_Headset_Idle(h, 0.0);          (no CheckError in this thread)
CppStreamIdle ==
    /\ Alive
    /\ dsiPc = "s_idle"
    /\ \E deliver \in BOOLEAN, sig \in Packets(nChannels), f \in BOOLEAN :
         /\ HeadsetIdle(deliver, sig)
         /\ RaisesFault(f)
    /\ dsiPc' = "s_test"
    /\ UNCHANGED <<KeepRunning, sThread, command, report, outlet, mainPc, exitStatus>>
    /\ UNCHANGED <<headset, nCmds, tdLog, cppUnused>>

\* A packet delivered to OnSample (by streamLoop's DSI_Headset_Idle or by the
\* drain in Finish) while the outlet is the NULL handle: the access violation
\* ends the process.
CppOnSampleNullOutlet ==
    /\ Alive
    /\ dsiPc = "s_idle" \/ mainPc = "c_fin263"
    /\ headset.callback = "OnSample"
    /\ outlet.state = "NULL"
    /\ mainPc' = "ret"
    /\ exitStatus' = -1073741819
    /\ UNCHANGED <<KeepRunning, sample, sThread, command, report, outlet, dsiPc>>
    /\ UNCHANGED <<devVars, envVars, histVars, guiVars>>
    /\ UNCHANGED <<startFlag, stopFlag, iThread, impPc, resetSeq>>

\* while (keepRunning)
CppLoopTest ==
    /\ mainPc = "c_test"
    /\ mainPc' = IF KeepRunning = 1 THEN "c_read" ELSE "c_join"
    /\ command' = "none"
    /\ report' = "none"
    /\ UNCHANGED <<KeepRunning, sample, sThread, outlet, dsiPc, exitStatus>>
    /\ UNCHANGED <<devVars, envVars, histVars, guiVars>>
    /\ UNCHANGED <<startFlag, stopFlag, iThread, impPc, resetSeq>>

\* Where main goes with the line read (lines 125-154).
CppDispatch(tok) ==
    CASE tok = "checkZ" -> "c_ci192"
      [] tok = "resetZ" -> "c_rz179"
      [] tok \in {"EOF", "readError"} -> "c_join"
      [] OTHER -> "c_test"

\* if (!std::getline(std::cin, command_line)) { if (eof) { keepRunning = false; break; } break; }
\* if (command_line.empty()) continue;   if (command == "exit") keepRunning = false;
\* ... else std::cout << "Unknown command: '" << command << "'"
CppReadLine ==
    /\ mainPc = "c_read"
    /\ nCmds < MaxCmds
    /\ nCmds' = nCmds + 1
    /\ \E tok \in CppTokens :
         /\ command' = tok
         /\ KeepRunning' = IF tok \in {"exit", "EOF"} THEN 0 ELSE KeepRunning
         /\ report' = CASE tok = "EOF" -> "eof"
                        [] tok = "readError" -> "readError"
                        [] tok = "other" -> "unknown"
                        [] OTHER -> "none"
         /\ mainPc' = CppDispatch(tok)
    /\ UNCHANGED <<sample, sThread, outlet, dsiPc, exitStatus>>
    /\ UNCHANGED <<devVars, faults, histVars, guiVars>>
    /\ UNCHANGED <<startFlag, stopFlag, iThread, impPc, resetSeq>>

\* A "call; CHECK;" pair of CheckImpedance or startAnalogReset: the call may
\* raise an error (f); CHECK returns -1 to main (position fail) when an error
\* is pending, clearing it, and the function goes on (position next) otherwise.
CppCallCheck(f, next, fail) ==
    /\ f => faults < MaxFaults
    /\ faults' = IF f THEN faults + 1 ELSE faults
    /\ dsiError' = FALSE
    /\ mainPc' = IF f \/ dsiError THEN fail ELSE next

\* CheckImpedance: DSI_Headset_StartImpedanceDriver(h); CHECK;
CppCheckImpedanceStartDriver ==
    /\ mainPc = "c_ci192"
    /\ \E f \in BOOLEAN :
         /\ CppCallCheck(f, "c_ci196", "c_chk147")
         /\ headset' = IF f THEN headset ELSE [headset EXCEPT !.impDriver = TRUE]
    /\ UNCHANGED <<KeepRunning, sample, sThread, command, report, outlet, dsiPc, exitStatus>>
    /\ UNCHANGED <<signal, nCmds, tdLog, lastPush, cppUnused>>

\* CheckImpedance: DSI_Headset_StartDataAcquisition(h); CHECK;
\*                 PrintImpedances(h, 0, (void*)1); CHECK;
CppCheckImpedanceStartAcquisition ==
    /\ mainPc = "c_ci196"
    /\ \E f \in BOOLEAN :
         /\ CppCallCheck(f, "c_ci202", "c_chk147")
         /\ headset' = IF f THEN headset ELSE [headset EXCEPT !.acquiring = TRUE]
    /\ UNCHANGED <<KeepRunning, sample, sThread, command, report, outlet, dsiPc, exitStatus>>
    /\ UNCHANGED <<signal, nCmds, tdLog, lastPush, cppUnused>>

\* CheckImpedance: DSI_Headset_SetSampleCallback(h, PrintImpedances, nullptr); CHECK;
CppCheckImpedanceSetCallback ==
    /\ mainPc = "c_ci202"
    /\ \E f \in BOOLEAN :
         /\ CppCallCheck(f, "c_ci205", "c_chk147")
         /\ headset' = IF f THEN headset
                       ELSE [headset EXCEPT !.callback = "PrintImpedances"]
    /\ UNCHANGED <<KeepRunning, sample, sThread, command, report, outlet, dsiPc, exitStatus>>
    /\ UNCHANGED <<signal, nCmds, tdLog, lastPush, cppUnused>>

\* CheckImpedance: DSI_Headset_Receive( h, -1, 1.0 ); CHECK  return 0;
\* The packets received go to the registered callback, PrintImpedances.
CppCheckImpedanceReceive ==
    /\ mainPc = "c_ci205"
    /\ \E deliver \in BOOLEAN, sig \in Packets(nChannels), f \in BOOLEAN :
         /\ HeadsetIdle(deliver, sig)
         /\ CppCallCheck(f, "c_chk147", "c_chk147")
    /\ UNCHANGED <<KeepRunning, sThread, command, report, outlet, dsiPc, exitStatus>>
    /\ UNCHANGED <<headset, nCmds, tdLog, cppUnused>>

\* startAnalogReset: DSI_Headset_StartAnalogReset(h); CHECK; sleep_for(3 s); return 0;
CppStartAnalogReset ==
    /\ mainPc = "c_rz179"
    /\ \E f \in BOOLEAN : CppCallCheck(f, "c_chk149", "c_chk149")
    /\ UNCHANGED <<KeepRunning, sample, sThread, command, report, outlet, dsiPc, exitStatus>>
    /\ UNCHANGED <<headset, signal, nCmds, tdLog, lastPush, cppUnused>>

\* checkZ: CheckImpedance(h); command = ' '; CHECK;     resetZ: startAnalogReset(h); CHECK;
\* CHECK in main: return -1 when an error is pending (one raised by streamLoop's
\* DSI_Headset_Idle meanwhile; those of the call itself were cleared inside it).
CppCheckAfterCommand ==
    /\ mainPc \in {"c_chk147", "c_chk149"}
    /\ IF CheckErrorResult # 0
       THEN CppReturn(-1)
       ELSE mainPc' = "c_test" /\ exitStatus' = exitStatus
    /\ CheckErrorEffect
    /\ UNCHANGED <<KeepRunning, sample, sThread, command, report, outlet, dsiPc>>
    /\ UNCHANGED <<headset, signal, envVars, tdLog, lastPush, cppUnused>>

\* if (streamThread.joinable()) streamThread.join();
CppJoin ==
    /\ mainPc = "c_join"
    /\ dsiPc = "done"
    /\ sThread' = "joined"
    /\ mainPc' = "c_destroy"
    /\ UNCHANGED <<KeepRunning, sample, command, report, outlet, dsiPc, exitStatus>>
    /\ UNCHANGED <<devVars, envVars, histVars, guiVars>>
    /\ UNCHANGED <<startFlag, stopFlag, iThread, impPc, resetSeq>>

\* lsl_destroy_outlet(outlet); return Finish(h);
CppDestroyOutlet ==
    /\ mainPc = "c_destroy"
    /\ outlet' = [outlet EXCEPT !.state = IF @ = "NULL" THEN "NULL" ELSE "destroyed"]
    /\ tdLog' = Append(tdLog, "destroyOutlet")
    /\ mainPc' = "c_fin257"
    /\ UNCHANGED <<KeepRunning, sample, sThread, command, report, dsiPc, exitStatus>>
    /\ UNCHANGED <<devVars, envVars, lastPush, cppUnused>>

\* The calls of the C++ Finish in order: position, step logged, next position.
CppFinishSteps ==
    <<[pc |-> "c_fin257", step |-> "detachCallback", next |-> "c_fin259"],
      [pc |-> "c_fin259", step |-> "stopAcquisition", next |-> "c_fin261"],
      [pc |-> "c_fin261", step |-> "stopImpedance", next |-> "c_fin263"],
      [pc |-> "c_fin263", step |-> "drain", next |-> "c_fin265"],
      [pc |-> "c_fin265", step |-> "deleteHeadset", next |-> "ret"]>>

\* What a call of Finish that raised no error did to the Device.
CppFinishEffect(step) ==
    CASE step = "detachCallback" -> [headset EXCEPT !.callback = "NULL"]
      [] step = "stopAcquisition" -> [headset EXCEPT !.acquiring = FALSE]
      [] step = "stopImpedance" -> [headset EXCEPT !.impDriver = FALSE]
      [] step = "drain" -> headset
      [] step = "deleteHeadset" -> [headset EXCEPT !.state = "deleted"]

\* Finish: each call followed by CHECK (return -1); return 0 after the last.
\* DSI_Headset_Delete releases the session whether or not it reports an error.
CppFinish ==
    \E k \in 1..Len(CppFinishSteps), f \in BOOLEAN,
       deliver \in BOOLEAN, sig \in Packets(nChannels) :
         LET s == CppFinishSteps[k]
         IN  /\ mainPc = s.pc
             /\ (s.step # "drain") => ~deliver
             /\ f => faults < MaxFaults
             /\ faults' = IF f THEN faults + 1 ELSE faults
             /\ dsiError' = FALSE
             /\ headset' = IF f /\ s.step # "deleteHeadset" THEN headset
                           ELSE CppFinishEffect(s.step)
             /\ IF s.step = "drain"
                THEN HeadsetIdle(deliver, sig)
                ELSE UNCHANGED <<signal, sample, lastPush>>
             /\ tdLog' = Append(tdLog, s.step)
             /\ mainPc' = IF f \/ dsiError THEN "ret" ELSE s.next
             /\ exitStatus' = IF f \/ dsiError THEN -1 ELSE 0
             /\ UNCHANGED <<KeepRunning, sThread, command, report, outlet, dsiPc>>
             /\ UNCHANGED <<nCmds, cppUnused>>

CppMainNoInput ==
    \/ CppStartUp
    \/ CppInitLSL
    \/ CppSetSampleCallback
    \/ CppStartDataAcquisition
    \/ CppStartThread
    \/ CppLoopTest
    \/ CppCheckImpedanceStartDriver
    \/ CppCheckImpedanceStartAcquisition
    \/ CppCheckImpedanceSetCallback
    \/ CppCheckImpedanceReceive
    \/ CppStartAnalogReset
    \/ CppCheckAfterCommand
    \/ CppJoin
    \/ CppDestroyOutlet
    \/ CppFinish

streamLoop ==
    \/ CppStreamLoopTest
    \/ CppStreamIdle

CppNext ==
    \/ QuitHandler
    \/ CppOnSampleNullOutlet
    \/ CppMainNoInput
    \/ CppReadLine
    \/ streamLoop

SpecCpp ==
    Init /\ [][CppNext]_vars

\* The threads of the C++ variant under the same scheduling: main (outside
\* std::getline) and streamLoop take the steps they can take.
FairSpecCpp ==
    /\ SpecCpp
    /\ WF_vars(CppMainNoInput)
    /\ WF_vars(streamLoop)

\* ============================================ the GUI (MainWindow, part_000)
\* MainWindow runs the streamer as a child process (QProcess) and writes the
\* operator's commands to its standard input.  Its handlers run one at a time
\* on the GUI thread, so each handler is one step.  The streamer's own state
\* is not looked at here: the variables of the streamer keep their values.

\* Start clicks in one session of the window.
MaxStarts ==
    3

notGui ==
    <<progVars, devVars, envVars, histVars>>

\* QObject::connect(sender, signal, receiver, slot) with the default connection
\* type: every call adds a connection, also when the same one exists already.
Connect(n) ==
    n + 1

\* A signal emitted with n connections to a slot invokes the slot n times;
\* lines is what one invocation writes.
Emit(n, lines) ==
    IF lines = <<>> THEN <<>> ELSE [i \in 1..n |-> lines[1]]

\* void MainWindow::onZCheckBoxToggled(bool checked): what one invocation
\* writes to the streamer, whose state is `state`.
onZCheckBoxToggled(state, checked) ==
    IF state = "Running"
    THEN <<IF checked THEN "checkZOn" ELSE "checkZOff">>
    ELSE <<>>

\* void MainWindow::onResetZButtonClicked()
onResetZButtonClicked(state) ==
    IF state = "Running" THEN <<"resetZ">> ELSE <<>>

\* The statements of on_buttonBox_rejected (this->streamer is never NULL after
\* the constructor): close() ends the streamer, the timer is killed, and
\* setChecked(false) unchecks the box; the toggled signal this emits reaches
\* the slot with the streamer not running, so nothing is written.
Rejected ==
    /\ timerActive' = FALSE
    /\ zChecked' = FALSE

\* void MainWindow::on_buttonBox_accepted()                      (Start clicked)
on_buttonBox_accepted ==
    /\ nStarts < MaxStarts
    /\ nStarts' = nStarts + 1
    /\ zChecked' = FALSE
    /\ streamerState' = "Starting"
    /\ zConnections' = Connect(zConnections)
    /\ resetConnections' = Connect(resetConnections)
    /\ timerActive' = TRUE
    /\ guiEvent' = "start"
    /\ running0' = (streamerState = "Running")
    /\ written' = <<>>
    /\ UNCHANGED notGui

\* void MainWindow::on_buttonBox_rejected()                       (Stop clicked)
on_buttonBox_rejected ==
    /\ Rejected
    /\ streamerState' = "NotRunning"
    /\ guiEvent' = "stop"
    /\ running0' = (streamerState = "Running")
    /\ written' = <<>>
    /\ UNCHANGED <<zConnections, resetConnections, nStarts>>
    /\ UNCHANGED notGui

\* The operator toggles the Z check box: ZCheckBox::toggled(checked).
ToggleZCheckBox ==
    /\ zChecked' = ~zChecked
    /\ written' = Emit(zConnections, onZCheckBoxToggled(streamerState, zChecked'))
    /\ guiEvent' = IF zChecked' THEN "checked" ELSE "unchecked"
    /\ running0' = (streamerState = "Running")
    /\ UNCHANGED <<streamerState, zConnections, resetConnections, timerActive, nStarts>>
    /\ UNCHANGED notGui

\* The operator clicks Reset Z: ResetZButton::clicked().
ClickResetZButton ==
    /\ written' = Emit(resetConnections, onResetZButtonClicked(streamerState))
    /\ guiEvent' = "resetZ"
    /\ running0' = (streamerState = "Running")
    /\ UNCHANGED <<streamerState, zChecked, zConnections, resetConnections,
                   timerActive, nStarts>>
    /\ UNCHANGED notGui

\* void MainWindow::timerEvent(QTimerEvent *event): with the streamer gone the
\* window is reset; otherwise only the progress bar moves.
timerEvent ==
    /\ timerActive
    /\ IF streamerState = "NotRunning"
       THEN Rejected
       ELSE UNCHANGED <<timerActive, zChecked>>
    /\ UNCHANGED <<streamerState, zConnections, resetConnections, nStarts,
                   guiEvent, running0, written>>
    /\ UNCHANGED notGui

\* The child process comes up after QProcess::start.
StreamerStarted ==
    /\ streamerState = "Starting"
    /\ streamerState' = "Running"
    /\ UNCHANGED <<zChecked, zConnections, resetConnections, timerActive, nStarts,
                   guiEvent, running0, written>>
    /\ UNCHANGED notGui

\* The child process fails to start, or ends by itself.
StreamerExited ==
    /\ streamerState \in {"Starting", "Running"}
    /\ streamerState' = "NotRunning"
    /\ UNCHANGED <<zChecked, zConnections, resetConnections, timerActive, nStarts,
                   guiEvent, running0, written>>
    /\ UNCHANGED notGui

GuiNext ==
    \/ on_buttonBox_accepted
    \/ on_buttonBox_rejected
    \/ ToggleZCheckBox
    \/ ClickResetZButton
    \/ timerEvent
    \/ StreamerStarted
    \/ StreamerExited

SpecGui ==
    Init /\ [][GuiNext]_vars

\* ================================== the standalone impedance worker (worker.c)
\* src/CLI/worker.c is a program of its own: one thread, main, and the SIGINT
\* handler.  Its state is held in the variables of the same meaning:
\* KeepRunning, headset, the Device error dsiError, mainPc (positions w_...),
\* exitStatus, and tdLog for the cleanup calls.  It never calls DSI_ClearError.

\* What worker.c has no counterpart of, or never changes.
workerUnused ==
    <<startFlag, stopFlag, sThread, iThread, command, report, resetSeq, outlet,
      dsiPc, impPc, nChannels, samplingRate, nCmds, cycBoth, cycStart, pairB,
      pairOffOn, idleFault, startReq, stopReq, errShown, lateReq, finFault, guiVars>>

\* signal(SIGINT, QuitHandler); serialPort = GetStringOpt(...); fprintf(serialPort);
\* The call hands a string to fprintf as its FILE * and no format: undefined
\* behaviour, which either returns or ends the process (access violation).
WorkerPrintPort ==
    /\ mainPc = "StartUp"
    /\ \E returns \in BOOLEAN :
         /\ mainPc' = IF returns THEN "w_connect" ELSE "ret"
         /\ exitStatus' = IF returns THEN exitStatus ELSE -1073741819
    /\ UNCHANGED <<KeepRunning, sample, lastPush, tdLog, workerUnused>>
    /\ UNCHANGED <<devVars, faults>>

\* h = DSI_Headset_New(NULL); DSI_Headset_SetMessageCallback(h, Message);
\* DSI_Headset_Connect(h, serialPort);
\* f: one of the calls raised an error (the headset is then not connected).
WorkerConnect ==
    /\ mainPc = "w_connect"
    /\ \E f \in BOOLEAN :
         /\ RaisesFault(f)
         /\ headset' = [headset EXCEPT !.state = IF f THEN "new" ELSE "connected"]
    /\ mainPc' = "w_chk29"
    /\ UNCHANGED <<KeepRunning, exitStatus, sample, lastPush, tdLog, signal, workerUnused>>

\* if (DSI_Error()) { fprintf(stderr, "Worker: Failed to connect..."); ... }
WorkerCheckConnect ==
    /\ mainPc = "w_chk29"
    /\ mainPc' = IF dsiError THEN "w_del31" ELSE "w_info34"
    /\ UNCHANGED <<KeepRunning, exitStatus, sample, lastPush, tdLog, workerUnused>>
    /\ UNCHANGED <<devVars, faults>>

\* DSI_Headset_Delete(h); return 1;
WorkerDeleteFailed ==
    /\ mainPc = "w_del31"
    /\ headset' = [headset EXCEPT !.state = "deleted"]
    /\ tdLog' = Append(tdLog, "deleteHeadset")
    /\ mainPc' = "ret"
    /\ exitStatus' = 1
    /\ UNCHANGED <<KeepRunning, sample, lastPush, dsiError, signal, faults, workerUnused>>

\* printf("Worker: Connected to headset %s\n", DSI_Headset_GetInfoString(h));
WorkerGetInfoString ==
    /\ mainPc = "w_info34"
    /\ \E f \in BOOLEAN : RaisesFault(f)
    /\ mainPc' = "w_start37"
    /\ UNCHANGED <<KeepRunning, exitStatus, sample, lastPush, tdLog, headset, signal,
                   workerUnused>>

\* DSI_Headset_StartImpedanceDriver(h);                       (no error check)
WorkerStartImpedanceDriver ==
    /\ mainPc = "w_start37"
    /\ \E f \in BOOLEAN :
         /\ RaisesFault(f)
         /\ headset' = IF f THEN headset ELSE [headset EXCEPT !.impDriver = TRUE]
    /\ mainPc' = "w_acq38"
    /\ UNCHANGED <<KeepRunning, exitStatus, sample, lastPush, tdLog, signal, workerUnused>>

\* DSI_Headset_StartDataAcquisition(h);
WorkerStartDataAcquisition ==
    /\ mainPc = "w_acq38"
    /\ \E f \in BOOLEAN :
         /\ RaisesFault(f)
         /\ headset' = IF f THEN headset ELSE [headset EXCEPT !.acquiring = TRUE]
    /\ mainPc' = "w_cb39"
    /\ UNCHANGED <<KeepRunning, exitStatus, sample, lastPush, tdLog, signal, workerUnused>>

\* DSI_Headset_SetSampleCallback(h, PrintImpedances, NULL);
WorkerSetSampleCallback ==
    /\ mainPc = "w_cb39"
    /\ \E f \in BOOLEAN :
         /\ RaisesFault(f)
         /\ headset' = IF f THEN headset
                       ELSE [headset EXCEPT !.callback = "PrintImpedances"]
    /\ mainPc' = "w_head42"
    /\ UNCHANGED <<KeepRunning, exitStatus, sample, lastPush, tdLog, signal, workerUnused>>

\* PrintImpedances(h, 0, "headings"); printf("Worker: Printing impedances. ...");
\* PrintImpedances reads the sources of the headset through the Device.
WorkerPrintHeadings ==
    /\ mainPc = "w_head42"
    /\ \E f \in BOOLEAN : RaisesFault(f)
    /\ mainPc' = "w_test"
    /\ UNCHANGED <<KeepRunning, exitStatus, sample, lastPush, tdLog, headset, signal,
                   workerUnused>>

\* while (KeepRunning)
WorkerLoopTest ==
    /\ mainPc = "w_test"
    /\ mainPc' = IF KeepRunning # 0 THEN "w_idle" ELSE "w_stop52"
    /\ UNCHANGED <<KeepRunning, exitStatus, sample, lastPush, tdLog, workerUnused>>
    /\ UNCHANGED <<devVars, faults>>

\* DSI_Headset_Idle(h, 1.0);
WorkerIdle ==
    /\ mainPc = "w_idle"
    /\ \E deliver \in BOOLEAN, sig \in Packets(nChannels), f \in BOOLEAN :
         /\ HeadsetIdle(deliver, sig)
         /\ RaisesFault(f)
    /\ mainPc' = "w_test"
    /\ UNCHANGED <<KeepRunning, exitStatus, tdLog, headset, workerUnused>>

\* printf("Worker: Exiting.\n"); DSI_Headset_StopDataAcquisition(h);
WorkerStopDataAcquisition ==
    /\ mainPc = "w_stop52"
    /\ \E f \in BOOLEAN :
         /\ RaisesFault(f)
         /\ headset' = IF f THEN headset ELSE [headset EXCEPT !.acquiring = FALSE]
    /\ tdLog' = Append(tdLog, "stopAcquisition")
    /\ mainPc' = "w_del53"
    /\ UNCHANGED <<KeepRunning, exitStatus, sample, lastPush, signal, workerUnused>>

\* WorkerDelete returning without the call that releases the headset.
WorkerDeleteSkipped ==
    /\ mainPc = "w_del53"
    /\ mainPc' = "ret"
    /\ exitStatus' = 0
    /\ UNCHANGED <<KeepRunning, sample, lastPush, tdLog, workerUnused>>
    /\ UNCHANGED <<devVars, faults>>

\* DSI_Headset_Delete(h); return 0;
WorkerDelete ==
    /\ mainPc = "w_del53"
    /\ headset' = [headset EXCEPT !.state = "deleted"]
    /\ tdLog' = Append(tdLog, "deleteHeadset")
    /\ mainPc' = "ret"
    /\ exitStatus' = 0
    /\ UNCHANGED <<KeepRunning, sample, lastPush, dsiError, signal, faults, workerUnused>>

WorkerMain ==
    \/ WorkerPrintPort
    \/ WorkerConnect
    \/ WorkerCheckConnect
    \/ WorkerDeleteFailed
    \/ WorkerGetInfoString
    \/ WorkerStartImpedanceDriver
    \/ WorkerStartDataAcquisition
    \/ WorkerSetSampleCallback
    \/ WorkerPrintHeadings
    \/ WorkerLoopTest
    \/ WorkerIdle
    \/ WorkerStopDataAcquisition
    \/ WorkerDelete

WorkerNext ==
    \/ QuitHandler
    \/ WorkerMain

SpecWorker ==
    Init /\ [][WorkerNext]_vars

\* ================================================================= claims

IsPrefix(a, b) ==
    /\ Len(a) <= Len(b)
    /\ \A i \in 1..Len(a) : a[i] = b[i]

Count(step, log) ==
    Cardinality({i \in 1..Len(log) : log[i] = step})

\* The command loop was entered: both threads were created.
LoopEntered ==
    sThread \notin {"none", "NULL"}

\* Every startup step succeeded: the Device is connected and configured, the
\* outlet exists, the sample callback is registered and acquisition is on.
StartupSucceeded ==
    /\ headset.state = "connected"
    /\ outlet.state = "live"
    /\ headset.callback = "OnSample"
    /\ headset.acquiring

\* C1 (monotone shutdown): once KeepRunning is 0 no step sets it to 1 again,
\* and every loop test that reads it afterwards (acquisition thread, impedance
\* thread, dispatcher) reads 0 and leaves its loop.  The step in which the
\* process is ended by the push to a NULL outlet is no loop test.
MonotoneShutdown ==
    [][/\ KeepRunning = 0 => KeepRunning' = 0
       /\ (KeepRunning = 0 /\ dsiPc = "d_test") => dsiPc' \in {"d_test", "done"}
       /\ (KeepRunning = 0 /\ impPc = "i_test") => impPc' \in {"i_test", "done"}
       /\ (KeepRunning = 0 /\ mainPc = "m_test" /\ ~OnSampleNullOutlet)
              => mainPc' \in {"m_test", "m_joinS"}]_vars

\* C1 witness: the flag was cleared and both threads and the dispatcher saw it.
MonotoneShutdownWitness ==
    /\ KeepRunning = 0
    /\ dsiPc = "done"
    /\ impPc = "done"
    /\ mainPc = "m_destroy"

\* C2 (at-most-once delivery of impedance start, as claimed): whenever the
\* worker is about to consume a start request (clear startFlag at line 111) it
\* has invoked DSI_Headset_StartImpedanceDriver for it in this cycle.
ConsumedStartWasInvoked ==
    impPc = "i_clrStart" => cycStart

\* C3 (stop precedence, as claimed): a cycle that began with both flags set
\* does not invoke DSI_Headset_StartImpedanceDriver.
StopPrecedence ==
    cycBoth => ~cycStart

\* C4 (scenario B): after checkZOn then checkZOff, with no flag read by the
\* worker from the reading of checkZOn to the end of the checkZOff handler, the
\* worker is never on its way to DSI_Headset_StartImpedanceDriver, up to the
\* moment it has served the stop and cleared stopFlag (or a later checkZOn is
\* read): the pair causes no start invocation.
ScenarioB ==
    pairB = "armed" => ~CommittedToStart

\* C4 witness: the pair was served by a stop invocation and no start.
ScenarioBWitness ==
    /\ pairB = "armed"
    /\ impPc = "i_chk118"
    /\ stopReq.calls = 1
    /\ ~cycStart
    /\ ~headset.impDriver

\* C5 (sample fidelity): every buffer handed to lsl_push_sample_f has exactly
\* nChannels entries, entry i is the (float) signal of channel i at the time of
\* the callback, and the outlet pushed to was created with nChannels channels.
SampleFidelity ==
    lastPush.buf # <<>> =>
        /\ Len(lastPush.buf) = nChannels
        /\ \A i \in 1..nChannels : lastPush.buf[i] = ToFloat(lastPush.sig[i])
        /\ lastPush.channels = nChannels

\* C5 witness: a pushed sample of two channels holding different signals, one
\* of which the float conversion changes.
SampleFidelityWitness ==
    /\ nChannels = 2
    /\ lastPush.sig = <<FloatExact + 1, FloatExact + 2>>
    /\ lastPush.buf = <<FloatExact, FloatExact + 2>>

\* C6 (as claimed): once the dispatcher has handled `exit` or EOF the run
\* flag is 0.
ExitOrEofRequestsStop ==
    (command \in {"exit", "EOF"} /\ mainPc # "m_read") => KeepRunning = 0

\* C7 (idempotent exit): the outlet and the Device session are each released at
\* most once, and `exit` or EOF read while KeepRunning is already 0 leads to
\* main returning (the joins do not hang).
LateExit ==
    /\ KeepRunning = 0
    /\ \/ mainPc = "m_test" /\ command = "exit"
       \/ mainPc = "m_joinS" /\ command = "EOF"

IdempotentExit ==
    /\ [](Count("destroyOutlet", tdLog) <= 1 /\ Count("deleteHeadset", tdLog) <= 1)
    /\ (LateExit ~> mainPc = "ret")

\* C7 witness: `exit` has just been read while the system was already stopping.
IdempotentExitWitness ==
    /\ mainPc = "m_test"
    /\ command = "exit"
    /\ KeepRunning = 0
    /\ dsiPc = "done"

\* C8 (scenario C, as claimed): a fault raised by DSI_Headset_Idle in the
\* acquisition loop leads to the run flag being 0 (the first thing the claim
\* says follows; the thread exits and the teardown come after it).
ScenarioC ==
    idleFault ~> (KeepRunning = 0)

\* C9 (join before teardown): after the command loop, the dispatcher is past
\* the first join only when the acquisition thread has exited, and performs a
\* teardown step only when both threads have exited.
TeardownPcs ==
    {"m_destroy", "f_detach", "f_chk400", "f_stopAcq", "f_chk403", "f_idle",
     "f_chk410", "f_delete", "f_chk416"}

JoinBeforeTeardown ==
    LoopEntered =>
        /\ mainPc \in TeardownPcs \cup {"m_joinI"} => dsiPc = "done"
        /\ mainPc \in TeardownPcs => impPc = "done"
        /\ tdLog # <<>> => (dsiPc = "done" /\ impPc = "done")

\* C9 witness: the Device is about to be released after both joins.
JoinBeforeTeardownWitness ==
    /\ mainPc = "f_delete"
    /\ sThread = "closed"
    /\ iThread = "closed"

\* C10 (teardown order, as claimed): detach, stop acquisition, drain, release
\* the outlet, release the Device.
ClaimedOrder ==
    <<"detachCallback", "stopAcquisition", "drain", "destroyOutlet", "deleteHeadset">>

TeardownOrderAsClaimed ==
    LoopEntered => IsPrefix(tdLog, ClaimedOrder)

\* C10 (amended): after the command loop the outlet is released first, then
\* the callback is detached, acquisition stopped, the drain window run and the
\* Device released; a Device error at a step of Finish ends the sequence there.
CodeOrder ==
    <<"destroyOutlet", "detachCallback", "stopAcquisition", "drain", "deleteHeadset">>

TeardownOrder ==
    LoopEntered => IsPrefix(tdLog, CodeOrder)

\* C10 witness: the whole teardown has run.
TeardownOrderWitness ==
    /\ LoopEntered
    /\ tdLog = CodeOrder
    /\ mainPc = "ret"

\* C11 (startup failure, as claimed): main creates its threads only when every
\* startup step succeeded, and a run that ended before any thread was created
\* because a step failed returned a non-zero status.
StartupFailureAborts ==
    /\ mainPc \in {"CreateImpedanceThread", "CreateProcessingThread"} => StartupSucceeded
    /\ (iThread # "none" \/ sThread # "none") => outlet.state # "NULL"
    /\ (mainPc = "ret" /\ iThread = "none" /\ faults > 0) => exitStatus # 0

\* C12 (acquisition failure policy, as claimed): when DSI_Headset_Idle called
\* by the acquisition loop has raised an error, the loop's own CheckError is the
\* one that finds it (it then logs it and writes KeepRunning = 0), and the
\* process has not been ended otherwise in the meantime.
AcquisitionFailurePolicy ==
    idleFault => (dsiError /\ Alive)

\* C13 (impedance worker failure policy, as claimed): the worker never ends
\* its loop while the run flag is still 1.
WorkerFailurePolicy ==
    impPc = "done" => KeepRunning = 0

\* C14 (orderly stop on a Device fault, as claimed): when main has returned the
\* status of a Device fault after the threads were created, both threads were
\* joined and the teardown was begun.
OrderlyStop ==
    (LoopEntered /\ mainPc = "ret" /\ exitStatus = -1) =>
        /\ sThread = "closed"
        /\ iThread = "closed"
        /\ Count("destroyOutlet", tdLog) = 1

\* C15 (no queuing of impedance requests, as claimed): when the worker is
\* about to consume a start request that a second checkZOn merged into, exactly
\* one DSI_Headset_StartImpedanceDriver call was made for it; likewise for a
\* stop request that a second checkZOff merged into.
NoQueuing ==
    /\ (impPc = "i_clrStart" /\ startReq.merged) => startReq.calls = 1
    /\ (impPc = "i_clrStop" /\ stopReq.merged) => stopReq.calls = 1

\* C16 (resetZ runs inline, as claimed): when the dispatcher is back at its
\* loop test after a resetZ, DSI_Headset_StartAnalogReset was called and the
\* settle delay waited; the steps that handle resetZ change none of startFlag,
\* stopFlag and KeepRunning; and the step that makes the Device call is a step
\* of the dispatcher, never of the impedance worker.
ResetPcs ==
    {"rz_chk274", "rz_reset", "rz_chk282", "m_chk237"}

\* A step of the dispatcher inside the handling of resetZ.
ResetStep ==
    mainPc \in ResetPcs /\ mainPc' # mainPc

\* The step in which DSI_Headset_StartAnalogReset is called.
ResetCallStep ==
    resetSeq # "started" /\ resetSeq' = "started"

ResetZFrame ==
    /\ ResetStep =>
         (startFlag' = startFlag /\ stopFlag' = stopFlag /\ KeepRunning' = KeepRunning)
    /\ ResetCallStep =>
         (mainPc = "rz_reset" /\ mainPc' = "rz_chk282" /\ impPc' = impPc)

ResetZInline ==
    /\ []((mainPc = "m_test" /\ command = "resetZ") => resetSeq = "idle")
    /\ [][ResetZFrame]_vars

\* C17 (unrecognized command, as claimed): when the dispatcher is back at its
\* loop test after a line that is no command, the line was reported to the
\* operator.
UnrecognizedReported ==
    (mainPc = "m_test" /\ command = "other") => report = "unknown"

\* C18 (scenario A, as claimed): startup succeeded and `exit` is the first line
\* read; unless a Device fault or a further line follows, main returns 0 with
\* the one outlet (created with the Device's channel count and sampling rate)
\* released, the whole teardown done and no impedance driver call made.
ExitFirst ==
    /\ StartupSucceeded
    /\ nCmds = 1
    /\ command = "exit"
    /\ mainPc = "m_test"
    /\ faults = 0

CleanExit ==
    /\ mainPc = "ret"
    /\ exitStatus = 0
    /\ outlet = [state |-> "destroyed", channels |-> nChannels, rate |-> samplingRate]
    /\ tdLog = CodeOrder
    /\ startReq = NewRequest
    /\ stopReq = NewRequest
    /\ ~headset.impDriver

ScenarioA ==
    ExitFirst ~> (CleanExit \/ faults > 0 \/ nCmds > 1)

\* C19 (scenario D, non-interruption): while the dispatcher is inside the
\* analog-reset sequence or the impedance worker inside a start or stop
\* transition, the acquisition loop is never held back: its next step is
\* enabled, its step at the service point is the DSI_Headset_Idle call, and
\* every buffer pushed meanwhile has nChannels entries, each the (float) signal
\* of its channel.
TransitionPcs ==
    {"i_ci298", "i_start", "i_ci299", "i_chk110", "i_stop", "i_chk118"}

Busy ==
    mainPc \in ResetSequencePcs \/ impPc \in TransitionPcs

NonInterruptionStep ==
    /\ (Busy /\ dsiPc = "d_idle" /\ dsiPc' # dsiPc) => dsiPc' = "d_check"
    /\ (Busy /\ lastPush' # lastPush) =>
         /\ Len(lastPush'.buf) = nChannels
         /\ \A i \in 1..nChannels : lastPush'.buf[i] = ToFloat(lastPush'.sig[i])

NonInterruption ==
    /\ []((Busy /\ Alive /\ dsiPc \in {"d_test", "d_idle", "d_check", "d_stop"}) =>
             ENABLED DSI_Processing_Thread)
    /\ [][NonInterruptionStep]_vars

\* C19 witness: the acquisition loop has serviced the Device (the error its
\* DSI_Headset_Idle raised is still pending, so the call came after the CHECK
\* of line 274) while the dispatcher is inside the reset sequence.
NonInterruptionWitness ==
    /\ mainPc = "rz_reset"
    /\ dsiPc = "d_check"
    /\ idleFault
    /\ dsiError
    /\ lastPush.buf # <<>>

\* C20 (known race): the analog reset of the dispatcher and the driver calls
\* of the impedance worker are not serialized: whenever the dispatcher is inside
\* DSI_Headset_StartAnalogReset while the worker is inside
\* DSI_Headset_StartImpedanceDriver or DSI_Headset_StopImpedanceDriver, neither
\* call waits for the other (each can be the next to return).
InReset ==
    mainPc = "rz_reset"

InDriverCall ==
    impPc \in {"i_start", "i_stop"}

NotSerialized ==
    (Alive /\ InReset /\ InDriverCall) =>
        /\ ENABLED startAnalogResetCall
        /\ ENABLED (CheckImpedanceStartDriver \/ ImpStopDriver)

\* C20 witness: the dispatcher is inside the reset call while the worker is
\* inside the start-driver call.
KnownRace ==
    /\ InReset
    /\ impPc = "i_start"
    /\ KeepRunning = 1

\* C21 (error visibility): a step that takes the run flag from 1 to 0 is either
\* the SIGINT handler's (no thread moves) or the stop statement of the
\* acquisition thread or of the impedance thread, and that thread's CheckError
\* has then written the message of the Device error it is stopping for; and a
\* thread is at its stop statement only with its message written.
StopByAcquisition ==
    dsiPc = "d_stop" /\ dsiPc' # dsiPc

StopByWorker ==
    impPc = "i_stopRun" /\ impPc' # impPc

StopBySigint ==
    dsiPc' = dsiPc /\ impPc' = impPc /\ mainPc' = mainPc

ErrorVisibilityStep ==
    (KeepRunning = 1 /\ KeepRunning' = 0) =>
        \/ StopByAcquisition /\ "dsi" \in errShown
        \/ StopByWorker /\ "imp" \in errShown
        \/ StopBySigint

ErrorVisibility ==
    /\ [](dsiPc = "d_stop" => "dsi" \in errShown)
    /\ [](impPc = "i_stopRun" => "imp" \in errShown)
    /\ [][ErrorVisibilityStep]_vars

\* C21 witness: the impedance thread has printed the error that
\* DSI_Headset_Idle raised in the acquisition loop and is about to clear the
\* run flag for it.
ErrorVisibilityWitness ==
    /\ impPc = "i_stopRun"
    /\ KeepRunning = 1
    /\ "imp" \in errShown
    /\ dsiPc = "d_check"
    /\ ~dsiError

\* C22 (C++ variant, as claimed): when the dispatcher is back at its loop test
\* after a checkZ whose CheckImpedance ran to its end, the registered sample
\* callback is still OnSample (so that delivered samples keep being pushed).
CheckZKeepsStreaming ==
    (mainPc = "c_test" /\ command = "checkZ" /\ headset.impDriver) =>
        headset.callback = "OnSample"

\* C23 (frame of an impedance-start request): a step of the impedance worker
\* from its reading startFlag set to its clearing the flag (CheckImpedance, the
\* CHECK of line 110, line 111) changes nothing of the Device but the
\* impedance driver state (acquisition stays on, the sample callback stays
\* registered, the session stays connected) and leaves the run flag, stopFlag
\* and the outlet as they are.
StartHandlingPcs ==
    {"i_ci298", "i_start", "i_ci299", "i_chk110", "i_clrStart"}

StartHandlingStep ==
    impPc \in StartHandlingPcs /\ impPc' # impPc

StartRequestFrameStep ==
    StartHandlingStep =>
        /\ headset' = [headset EXCEPT !.impDriver = headset'.impDriver]
        /\ KeepRunning' = KeepRunning
        /\ stopFlag' = stopFlag
        /\ outlet' = outlet

AtomicConsumeStep ==
    /\ (impPc = "i_clrStart" /\ impPc' # impPc /\ "start" \in lateReq) => startFlag' = 1
    /\ (impPc = "i_clrStop" /\ impPc' # impPc /\ "stop" \in lateReq) => stopFlag' = 1

AtomicConsume ==
    [][AtomicConsumeStep]_vars

\* C25 (writer discipline): both flags are 0 when the impedance thread is
\* created and hold 0 or 1 when the acquisition thread is created; a flag
\* becomes 1 only by the dispatcher's statement that sets it; a step of the
\* impedance worker leaves each flag as it is or clears it; a step of the
\* acquisition loop leaves both flags as they are and writes the run flag, if
\* at all, to 0.
WorkerStep ==
    impPc # "notStarted" /\ impPc' # impPc

AcquisitionStep ==
    dsiPc # "notStarted" /\ dsiPc' # dsiPc

WriterDisciplineStep ==
    /\ (impPc = "notStarted" /\ impPc' # impPc) => (startFlag' = 0 /\ stopFlag' = 0)
    /\ (dsiPc = "notStarted" /\ dsiPc' # dsiPc) =>
           (startFlag \in {0, 1} /\ stopFlag \in {0, 1})
    /\ (startFlag # 1 /\ startFlag' = 1) => (mainPc = "m_on2" /\ mainPc' = "m_test")
    /\ (stopFlag # 1 /\ stopFlag' = 1) => (mainPc = "m_off1" /\ mainPc' = "m_off2")
    /\ WorkerStep => (startFlag' \in {startFlag, 0} /\ stopFlag' \in {stopFlag, 0})
    /\ AcquisitionStep =>
           /\ startFlag' = startFlag
           /\ stopFlag' = stopFlag
           /\ KeepRunning' \in {KeepRunning, 0}

WriterDiscipline ==
    [][WriterDisciplineStep]_vars

\* C25 witness: the worker has served and cleared a start request, the
\* dispatcher has since set the stop flag, and the acquisition loop is running.
WriterDisciplineWitness ==
    /\ startFlag = 0
    /\ stopFlag = 1
    /\ headset.impDriver
    /\ impPc = "i_rdStop"
    /\ dsiPc = "d_check"
    /\ KeepRunning = 1

\* C26 (exactly-once release, as claimed): when main has returned from a run
\* whose startup succeeded (it reached the creation of the threads with a live
\* outlet), lsl_destroy_outlet was called exactly once and DSI_Headset_Delete
\* exactly once.
ExactlyOnceRelease ==
    (mainPc = "ret" /\ iThread # "none" /\ outlet.state # "NULL") =>
        /\ Count("destroyOutlet", tdLog) = 1
        /\ Count("deleteHeadset", tdLog) = 1

\* C27 (sample callback thread, as claimed): every step in which a buffer is
\* handed to lsl_push_sample_f is the DSI_Headset_Idle call of the acquisition
\* loop (line 82), never a step of the dispatcher or of the impedance worker.
PushStep ==
    lastPush' # lastPush

SampleCallbackThread ==
    [][PushStep => (dsiPc = "d_idle" /\ dsiPc' = "d_check")]_vars

\* C28 (worker termination): once the run flag is 0, every running thread
\* exits (or the process has ended); the flag stays 0; and with the flag 0 no
\* thread enters the body of its loop: the acquisition loop does not come to
\* its service call and the worker does not come to its first flag test, so
\* each makes at most the Device calls of the iteration it was in.
Running(pc) ==
    pc \notin {"notStarted", "done"}

NoNewIterationStep ==
    KeepRunning = 0 =>
        /\ KeepRunning' = 0
        /\ dsiPc' = "d_idle" => dsiPc = "d_idle"
        /\ impPc' = "i_rdStart" => impPc = "i_rdStart"

WorkerTermination ==
    /\ (KeepRunning = 0) ~> (~Alive \/ (~Running(dsiPc) /\ ~Running(impPc)))
    /\ [][NoNewIterationStep]_vars

\* C28 witness: the flag went 0 while the acquisition loop was inside its
\* service call and the worker inside a start: each has finished that
\* iteration and exited, and the dispatcher is past both joins.
WorkerTerminationWitness ==
    /\ KeepRunning = 0
    /\ dsiPc = "done"
    /\ impPc = "done"
    /\ headset.impDriver
    /\ startFlag = 0
    /\ mainPc = "f_delete"
    /\ lastPush.buf # <<>>

\* C29 (shared-resource policy): while a worker thread is running, the
\* dispatcher makes no call of DSI_Headset_Idle (the acquisition loop is the
\* only caller), and the impedance driver is started or stopped only by the
\* worker's own call.
IdleCallByMain ==
    mainPc = "f_idle" /\ mainPc' = "f_chk410"

WorkerThreadRunning ==
    Running(dsiPc) \/ Running(impPc)

ImpedanceDriverCallByWorker ==
    impPc \in {"i_start", "i_stop"} /\ impPc' \in {"i_ci299", "i_chk118"}

SharedResourcePolicyStep ==
    /\ IdleCallByMain => ~WorkerThreadRunning
    /\ headset'.impDriver # headset.impDriver => ImpedanceDriverCallByWorker

SharedResourcePolicy ==
    [][SharedResourcePolicyStep]_vars

\* C30 (teardown failure): when a teardown step of Finish has raised a Device
\* error, main returns (the process exits) with a non-zero result, and the
\* error has been written by a CheckError: none is left pending.
TeardownFailureOutcome ==
    (mainPc = "ret" /\ finFault) => (exitStatus # 0 /\ ~dsiError)

TeardownFailure ==
    /\ []TeardownFailureOutcome
    /\ finFault ~> (mainPc = "ret")

\* C31 (shutdown without operator input): once the run flag is 0 while the
\* dispatcher waits for a line, the dispatcher leaves the command loop (and
\* goes on to the joins and the teardown), whether or not the control input
\* ever delivers a line or its end.
PastCommandLoop ==
    mainPc \in {"m_joinS", "m_joinI", "ret"} \cup TeardownPcs

ShutdownWithoutInput ==
    (KeepRunning = 0 /\ mainPc = "m_read") ~> PastCommandLoop

\* C32 (the worker stays alive while running): while the run flag is 1 the
\* impedance thread, once created, has not exited; and a request flag left
\* set by a handled checkZOn (checkZOff) leads, unless the run flag goes 0,
\* to the worker having just made the start (stop) driver call.
WorkerAliveWhileRunning ==
    (Alive /\ KeepRunning = 1 /\ impPc # "notStarted") => impPc # "done"

StartRequestServed ==
    (mainPc = "m_test" /\ command = "checkZOn" /\ startFlag = 1)
        ~> (impPc = "i_ci299" \/ KeepRunning = 0 \/ ~Alive)

StopRequestServed ==
    (mainPc = "m_test" /\ command = "checkZOff" /\ stopFlag = 1)
        ~> (impPc = "i_chk118" \/ KeepRunning = 0 \/ ~Alive)

WorkerStaysAlive ==
    /\ []WorkerAliveWhileRunning
    /\ StartRequestServed
    /\ StopRequestServed

\* C33 (no use of a released Device): the step that executes
\* DSI_Headset_Delete is taken only when neither the acquisition thread nor
\* the impedance thread is running.
DeleteStep ==
    mainPc = "f_delete" /\ mainPc' = "f_chk416"

NoUseOfReleasedDevice ==
    [][DeleteStep => (~Running(dsiPc) /\ ~Running(impPc))]_vars

\* C34 (no push to a released outlet): once lsl_destroy_outlet has been called,
\* no call of DSI_Headset_Idle is made (by the acquisition loop or by the drain
\* of Finish) with OnSample registered, so OnSample hands no sample to the
\* destroyed outlet.
IdleCallDue ==
    Alive /\ (dsiPc = "d_idle" \/ mainPc = "f_idle")

NoPushToReleasedOutlet ==
    (outlet.state = "destroyed" /\ IdleCallDue) => headset.callback # "OnSample"

\* C34 witness: the outlet was destroyed with OnSample still registered, the
\* callback was then detached, and the drain call of Finish has been made.
NoPushToReleasedOutletWitness ==
    /\ mainPc = "f_chk410"
    /\ outlet.state = "destroyed"
    /\ tdLog = <<"destroyOutlet", "detachCallback", "stopAcquisition", "drain">>
    /\ lastPush.buf # <<>>
    /\ headset.callback = "NULL"

\* C35 (the request flags are never both set): in every state, between any
\* two flag writes of the dispatcher, startFlag and stopFlag are not both 1.
FlagsNeverBothSet ==
    ~(startFlag = 1 /\ stopFlag = 1)

\* C36 (symmetric cancellation): after checkZOff then checkZOn, with no flag
\* read by the worker from the reading of checkZOff to the end of the checkZOn
\* handler, the worker is never on its way to DSI_Headset_StopImpedanceDriver,
\* up to the moment it has served the start and cleared startFlag (or a later
\* checkZOff is read): the pair causes no stop invocation.
SymmetricCancellation ==
    pairOffOn = "armed" => ~CommittedToStop

\* C36 witness: the pair was served by a start invocation and no stop.
SymmetricCancellationWitness ==
    /\ pairOffOn = "armed"
    /\ impPc = "i_chk110"
    /\ startReq.calls = 1
    /\ stopReq.calls = 0
    /\ stopFlag = 0
    /\ headset.impDriver

\* C37 (shutdown liveness of the C++ variant): main is past its command loop
\* (at the join) only with keepRunning false, and from there the join returns
\* and main goes on to release the outlet and run Finish to its return.
CppLoopExitLeavesFlagFalse ==
    mainPc = "c_join" => KeepRunning = 0

CppTeardownRun ==
    /\ mainPc = "ret"
    /\ sThread = "joined"
    /\ Count("destroyOutlet", tdLog) = 1
    /\ Count("detachCallback", tdLog) = 1

CppShutdownLiveness ==
    /\ []CppLoopExitLeavesFlagFalse
    /\ (mainPc = "c_join") ~> CppTeardownRun

\* C38 (GUI command emission): a toggle of the Z check box writes exactly one
\* line to a running streamer, checkZOn when checked and checkZOff when
\* unchecked; a click of Reset Z writes exactly one resetZ line; and with the
\* streamer not running neither writes anything.
GuiCommandEmission ==
    /\ guiEvent = "checked" => written = (IF running0 THEN <<"checkZOn">> ELSE <<>>)
    /\ guiEvent = "unchecked" => written = (IF running0 THEN <<"checkZOff">> ELSE <<>>)
    /\ guiEvent = "resetZ" => written = (IF running0 THEN <<"resetZ">> ELSE <<>>)


\* ---------------------------------------------------------------------- C39
\* main of worker.c has tested the connect result and found no error.
WorkerPastConnect ==
    mainPc \in {"w_info34", "w_start37", "w_acq38", "w_cb39", "w_head42", "w_test",
                "w_idle", "w_stop52", "w_del53"}

\* main of worker.c has left its service loop.
WorkerPastLoop ==
    mainPc \in {"w_stop52", "w_del53"} \/ (mainPc = "ret" /\ exitStatus = 0)

\* C39: in the standalone impedance worker, a failed connect makes main delete
\* the headset and return 1 with neither the impedance driver nor the data
\* acquisition started; a successful connect makes it start both (they are on
\* unless the Device refused), stay in the service loop until SIGINT has set
\* KeepRunning to 0, then stop the acquisition and delete the headset once,
\* returning 0.
WorkerOutcome ==
    /\ WorkerPastConnect => headset.state = "connected"
    /\ mainPc = "w_del31" =>
         /\ headset.state = "new"
         /\ dsiError
         /\ ~headset.impDriver
         /\ ~headset.acquiring
    /\ (mainPc = "ret" /\ exitStatus = 1) =>
         /\ headset.state = "deleted"
         /\ dsiError
         /\ ~headset.impDriver
         /\ ~headset.acquiring
         /\ tdLog = <<"deleteHeadset">>
    /\ (mainPc \in {"w_test", "w_idle"} /\ ~dsiError) =>
         /\ headset.impDriver
         /\ headset.acquiring
         /\ headset.callback = "PrintImpedances"
    /\ WorkerPastLoop => KeepRunning = 0
    /\ mainPc = "w_del53" => tdLog = <<"stopAcquisition">> /\ headset.state = "connected"
    /\ (mainPc = "ret" /\ exitStatus = 0) =>
         /\ headset.state = "deleted"
         /\ tdLog = <<"stopAcquisition", "deleteHeadset">>

\* main has served the Device, seen SIGINT and returned 0 after both cleanup calls.
WorkerOutcomeWitness ==
    /\ mainPc = "ret"
    /\ exitStatus = 0
    /\ KeepRunning = 0
    /\ headset.state = "deleted"
    /\ \E i \in 1..nChannels : signal[i] # 0

====
